---------------------------- MODULE Spec2Model ----------------------------
(***************************************************************************)
(* Modbus RTU slave engine (V2.0 multi-instance variant,                   *)
(* src/V2_0/modbus_slave.c): the ping-pong receive handoff between         *)
(* Modbus_RxCallback (interrupt context) and Modbus_Process (main loop),   *)
(* frame validation, function dispatch and response construction.          *)
(*                                                                         *)
(* Buffers are sequences of octets; C index i is element i + 1.            *)
(***************************************************************************)
EXTENDS Integers, Sequences, FiniteSets, TLC

(***************************************************************************)
(* C integer operators on unsigned values.                                 *)
(***************************************************************************)
\* x ^ y on 4-bit values, tabulated: Xor4[x + 1][y + 1]
Xor4 == <<
    <<0, 1, 2, 3, 4, 5, 6, 7, 8, 9, 10, 11, 12, 13, 14, 15>>,
    <<1, 0, 3, 2, 5, 4, 7, 6, 9, 8, 11, 10, 13, 12, 15, 14>>,
    <<2, 3, 0, 1, 6, 7, 4, 5, 10, 11, 8, 9, 14, 15, 12, 13>>,
    <<3, 2, 1, 0, 7, 6, 5, 4, 11, 10, 9, 8, 15, 14, 13, 12>>,
    <<4, 5, 6, 7, 0, 1, 2, 3, 12, 13, 14, 15, 8, 9, 10, 11>>,
    <<5, 4, 7, 6, 1, 0, 3, 2, 13, 12, 15, 14, 9, 8, 11, 10>>,
    <<6, 7, 4, 5, 2, 3, 0, 1, 14, 15, 12, 13, 10, 11, 8, 9>>,
    <<7, 6, 5, 4, 3, 2, 1, 0, 15, 14, 13, 12, 11, 10, 9, 8>>,
    <<8, 9, 10, 11, 12, 13, 14, 15, 0, 1, 2, 3, 4, 5, 6, 7>>,
    <<9, 8, 11, 10, 13, 12, 15, 14, 1, 0, 3, 2, 5, 4, 7, 6>>,
    <<10, 11, 8, 9, 14, 15, 12, 13, 2, 3, 0, 1, 6, 7, 4, 5>>,
    <<11, 10, 9, 8, 15, 14, 13, 12, 3, 2, 1, 0, 7, 6, 5, 4>>,
    <<12, 13, 14, 15, 8, 9, 10, 11, 4, 5, 6, 7, 0, 1, 2, 3>>,
    <<13, 12, 15, 14, 9, 8, 11, 10, 5, 4, 7, 6, 1, 0, 3, 2>>,
    <<14, 15, 12, 13, 10, 11, 8, 9, 6, 7, 4, 5, 2, 3, 0, 1>>,
    <<15, 14, 13, 12, 11, 10, 9, 8, 7, 6, 5, 4, 3, 2, 1, 0>>
>>

RECURSIVE XorDigits(_, _, _)
\* a ^ b on values of n 4-bit digits, digit by digit
XorDigits(a, b, n) ==
    IF n = 0 THEN 0
    ELSE Xor4[(a % 16) + 1][(b % 16) + 1] + 16 * XorDigits(a \div 16, b \div 16, n - 1)

\* a ^ b on 16-bit values
BitXor(a, b) == XorDigits(a, b, 4)

\* x & 0xFF
LowByte(x) == x % 256

\* 1 << n
Pow2(n) == 2 ^ n

\* (x >> n) & 1
BitOf(x, n) == (x \div Pow2(n)) % 2

\* x | (1 << n) and x & ~(1 << n) on an octet
SetBit(x, n) == IF BitOf(x, n) = 1 THEN x ELSE x + Pow2(n)
ClearBit(x, n) == IF BitOf(x, n) = 1 THEN x - Pow2(n) ELSE x

\* (hi << 8) | lo assigned to a uint16_t
Word(hi, lo) == (hi * 256 + lo) % 65536

\* buf[i] for a C index i
At(buf, i) == buf[i + 1]

(***************************************************************************)
(* CRC-16/Modbus, both implementations.                                    *)
(***************************************************************************)
CRC16_TABLE == <<
    0, 49345, 49537, 320, 49921, 960, 640, 49729,
    50689, 1728, 1920, 51009, 1280, 50625, 50305, 1088,
    52225, 3264, 3456, 52545, 3840, 53185, 52865, 3648,
    2560, 51905, 52097, 2880, 51457, 2496, 2176, 51265,
    55297, 6336, 6528, 55617, 6912, 56257, 55937, 6720,
    7680, 57025, 57217, 8000, 56577, 7616, 7296, 56385,
    5120, 54465, 54657, 5440, 55041, 6080, 5760, 54849,
    53761, 4800, 4992, 54081, 4352, 53697, 53377, 4160,
    61441, 12480, 12672, 61761, 13056, 62401, 62081, 12864,
    13824, 63169, 63361, 14144, 62721, 13760, 13440, 62529,
    15360, 64705, 64897, 15680, 65281, 16320, 16000, 65089,
    64001, 15040, 15232, 64321, 14592, 63937, 63617, 14400,
    10240, 59585, 59777, 10560, 60161, 11200, 10880, 59969,
    60929, 11968, 12160, 61249, 11520, 60865, 60545, 11328,
    58369, 9408, 9600, 58689, 9984, 59329, 59009, 9792,
    8704, 58049, 58241, 9024, 57601, 8640, 8320, 57409,
    40961, 24768, 24960, 41281, 25344, 41921, 41601, 25152,
    26112, 42689, 42881, 26432, 42241, 26048, 25728, 42049,
    27648, 44225, 44417, 27968, 44801, 28608, 28288, 44609,
    43521, 27328, 27520, 43841, 26880, 43457, 43137, 26688,
    30720, 47297, 47489, 31040, 47873, 31680, 31360, 47681,
    48641, 32448, 32640, 48961, 32000, 48577, 48257, 31808,
    46081, 29888, 30080, 46401, 30464, 47041, 46721, 30272,
    29184, 45761, 45953, 29504, 45313, 29120, 28800, 45121,
    20480, 37057, 37249, 20800, 37633, 21440, 21120, 37441,
    38401, 22208, 22400, 38721, 21760, 38337, 38017, 21568,
    39937, 23744, 23936, 40257, 24320, 40897, 40577, 24128,
    23040, 39617, 39809, 23360, 39169, 22976, 22656, 38977,
    34817, 18624, 18816, 35137, 19200, 35777, 35457, 19008,
    19968, 36545, 36737, 20288, 36097, 19904, 19584, 35905,
    17408, 33985, 34177, 17728, 34561, 18368, 18048, 34369,
    33281, 17088, 17280, 33601, 16640, 33217, 32897, 16448
>>

\* The accumulator tests (crc >= 0, always true) make TLC evaluate crc at each
\* iteration instead of nesting the iterations.
RECURSIVE CrcTableLoop(_, _, _, _)
\* for (i = 0; i < length; i++) crc = (crc >> 8) ^ CRC16_TABLE[(crc ^ buffer[i]) & 0xFF];
CrcTableLoop(crc, buf, i, length) ==
    IF crc >= 0 /\ i < length
    THEN CrcTableLoop(BitXor(crc \div 256, CRC16_TABLE[LowByte(BitXor(crc, At(buf, i))) + 1]),
                      buf, i + 1, length)
    ELSE crc

\* the shift without the polynomial
CrcShift1_NoFold(crc) == crc \div 2

\* if (crc & 1) crc = (crc >> 1) ^ 0xA001; else crc >>= 1;
CrcShift1(crc) == IF crc % 2 = 1 THEN BitXor(crc \div 2, 40961) ELSE crc \div 2

RECURSIVE CrcShiftSteps(_, _)
\* for (j = ...; j < 8; j++) <shift step>
CrcShiftSteps(crc, j) ==
    IF crc >= 0 /\ j < 8 THEN CrcShiftSteps(CrcShift1(crc), j + 1) ELSE crc

\* for (j = 0; j < 8; j++): the eight shift steps
CrcShift8(crc) == CrcShiftSteps(crc, 0)

RECURSIVE CrcShiftLoop(_, _, _, _)
\* for (i = 0; i < length; i++) { crc ^= buffer[i]; <eight shift steps> }
CrcShiftLoop(crc, buf, i, length) ==
    IF crc >= 0 /\ i < length
    THEN CrcShiftLoop(CrcShift8(BitXor(crc, At(buf, i))), buf, i + 1, length)
    ELSE crc

\* the register started at 0x0000
Modbus_CRC16_FromZero(use_crc_table, buf, length) ==
    IF use_crc_table THEN CrcTableLoop(0, buf, 0, length)
    ELSE CrcShiftLoop(0, buf, 0, length)

Modbus_CRC16(use_crc_table, buf, length) ==
    IF use_crc_table THEN CrcTableLoop(65535, buf, 0, length)
    ELSE CrcShiftLoop(65535, buf, 0, length)

(***************************************************************************)
(* Function codes and exception codes (modbus_slave.h).                    *)
(***************************************************************************)
MB_FUNC_READ_COILS == 1
MB_FUNC_READ_DISCRETE == 2
MB_FUNC_READ_HOLDING == 3
MB_FUNC_READ_INPUT == 4
MB_FUNC_WRITE_SINGLE_COIL == 5
MB_FUNC_WRITE_SINGLE_REG == 6
MB_FUNC_WRITE_MULTI_COILS == 15
MB_FUNC_WRITE_MULTI_REGS == 16
MB_FUNC_CUSTOM_CONFIG == 100

MB_EX_ILLEGAL_FUNCTION == 1
MB_EX_ILLEGAL_DATA_ADDRESS == 2
MB_EX_ILLEGAL_DATA_VALUE == 3
MB_EX_SLAVE_DEVICE_FAILURE == 4

(***************************************************************************)
(* Sizes of the modelled configuration.                                    *)
(***************************************************************************)
RxBufSize == 13
TxBufSize == 12
CoilCount == 10
DiscreteCount == 26
HoldingRegCount == 2
InputRegCount == 2
MaxIrqs == 2
MaxInits == 2

Bufs == {"A", "B"}
OtherBuf(b) == IF b = "A" THEN "B" ELSE "A"

Zeros(n) == [i \in 1..n |-> 0]

VARIABLES
    hmodbus,            \* the ModbusHandle_t fields
    rx_mem,             \* storage of rx_buf_a ("A") and rx_buf_b ("B")
    tx_buf,             \* storage of the transmit buffer
    g_coils,            \* register file: packed coils
    g_discrete_inputs,  \* register file: packed discrete inputs
    g_holding_regs,     \* register file: holding registers
    g_input_regs,       \* register file: input registers
    armed,              \* buffer the UART driver was last armed on
    proc,               \* the running Modbus_Process call: position and locals
    line,               \* the byte runs the bus can deliver to this instance
    obs,                \* observation of the current or last Modbus_Process call
    hist,               \* record of the runs received and answered
    shadow,             \* the values the master last wrote, from its requests
    uart,               \* the UART transmitter and the DE/RE pin of the instance
    init_call,          \* the last Modbus_Init call: its arguments and its result
    mb2,                \* a second instance (hModbus2) bound to the same register file
    legacy              \* the single-instance variant of src/modbus_slave.c, built alone

vars == <<hmodbus, rx_mem, tx_buf, g_coils, g_discrete_inputs, g_holding_regs,
          g_input_regs, armed, proc, line, obs, hist, shadow, uart, init_call, mb2, legacy>>

(***************************************************************************)
(* Modbus_SendResponse / Modbus_SendException on the working state m:      *)
(* [slave_addr, baud_rate, tx_buf, coils, holding_regs, sent, tx_oob,      *)
(*  cb_calls].  sent lists the frames handed to the UART.                  *)
(***************************************************************************)
\* hmodbus->tx_buf[i] = v; a store at or past tx_buf_size is out of bounds
TxStore(m, size, i, v) ==
    IF i < size THEN [m EXCEPT !.tx_buf[i + 1] = v]
    ELSE [m EXCEPT !.tx_oob = TRUE]

RECURSIVE TxCopy(_, _, _, _, _, _)
\* memcpy(&tx_buf[dst], &rx_buf[src], n)
TxCopy(m, size, dst, rx, src, n) ==
    IF n = 0 THEN m
    ELSE TxCopy(TxStore(m, size, dst, At(rx, src)), size, dst + 1, rx, src + 1, n - 1)

\* the memset left out
TxZero_Skip(m, size, dst, n) == m

RECURSIVE TxZero(_, _, _, _)
\* memset(&tx_buf[dst], 0, n)
TxZero(m, size, dst, n) ==
    IF n = 0 THEN m
    ELSE TxZero(TxStore(m, size, dst, 0), size, dst + 1, n - 1)

\* !(len + 2 > hmodbus->tx_buf_size)
FitsTxBuf(len, size) == ~(len + 2 > size)

\* HAL_UART_Transmit(huart, tx_buf, total_len, timeout)
Transmit(m, total_len) == [m EXCEPT !.sent = Append(@, SubSeq(m.tx_buf, 1, total_len))]

\* the CRC stored high octet first
AppendCrc_HighFirst(m, size, len, crc) ==
    Transmit(TxStore(TxStore(m, size, len, LowByte(crc \div 256)), size, len + 1, LowByte(crc)),
             len + 2)

\* tx_buf[len] = crc & 0xFF; tx_buf[len + 1] = (crc >> 8) & 0xFF; transmit len + 2 octets
AppendCrc(m, size, len, crc) ==
    Transmit(TxStore(TxStore(m, size, len, LowByte(crc)), size, len + 1, LowByte(crc \div 256)),
             len + 2)

\* HAL_GPIO_WritePin on the DE/RE pin: the level, and the frames sent before it
WritePin(h, m, level) ==
    IF h.rs485.enabled /\ h.rs485.de_port # "NULL"
    THEN [m EXCEPT !.de_drives = Append(@, [level |-> level, frames |-> Len(m.sent)])]
    ELSE m

\* Modbus_RS485_SetTxMode: the pin at the transmit polarity
RS485_SetTxMode(h, m) ==
    WritePin(h, m, IF h.rs485.de_polarity THEN "GPIO_PIN_SET" ELSE "GPIO_PIN_RESET")

\* Modbus_RS485_SetRxMode: the pin at the receive polarity
RS485_SetRxMode(h, m) ==
    WritePin(h, m, IF h.rs485.de_polarity THEN "GPIO_PIN_RESET" ELSE "GPIO_PIN_SET")

\* the blocking path after HAL_UART_Transmit: if (rs485.enabled) { wait for TC; SetRxMode }
AfterTransmit(h, m) == IF h.rs485.enabled THEN RS485_SetRxMode(h, m) ELSE m

Modbus_SendResponse(h, m, len) ==
    IF ~FitsTxBuf(len, h.tx_buf_size) THEN m
    ELSE AfterTransmit(h, AppendCrc(RS485_SetTxMode(h, m), h.tx_buf_size, len,
                                    Modbus_CRC16(h.use_crc_table, m.tx_buf, len)))

\* the exception flag added instead of or-ed
ExceptionFunc_Add(func_code) == (func_code + 128) % 256

\* func_code | 0x80
ExceptionFunc(func_code) == SetBit(func_code, 7)

\* the exception code left out: tx_buf[2] keeps the octet it held
Modbus_SendException_NoCode(h, m, func_code, exception_code) ==
    Modbus_SendResponse(h, TxStore(TxStore(m, h.tx_buf_size, 0, m.slave_addr),
                                   h.tx_buf_size, 1, ExceptionFunc(func_code)), 3)

Modbus_SendException(h, m, func_code, exception_code) ==
    LET m0 == TxStore(m, h.tx_buf_size, 0, m.slave_addr)
        m1 == TxStore(m0, h.tx_buf_size, 1, ExceptionFunc(func_code))
        m2 == TxStore(m1, h.tx_buf_size, 2, exception_code)
    IN Modbus_SendResponse(h, m2, 3)

(***************************************************************************)
(* Configuration interface.                                                *)
(***************************************************************************)
\* every octet taken as an address
ValidSlaveAddr_Octet(addr) == addr >= 0 /\ addr <= 255

\* addr >= 1 && addr <= 247
ValidSlaveAddr(addr) == addr >= 1 /\ addr <= 247

\* Modbus_SetSlaveAddr on the working state
SetSlaveAddr(m, addr) ==
    IF ValidSlaveAddr(addr) THEN [m EXCEPT !.slave_addr = addr] ELSE m

\* Modbus_SetBaudRate on the working state
SetBaudRate(m, baud) ==
    IF baud > 0 THEN [m EXCEPT !.baud_rate = baud] ELSE m

BAUD_RATE_TABLE == <<0, 1200, 2400, 4800, 9600, 19200, 38400, 57600, 115200>>

\* The host's 0x64 callback of example_main.c: [ok, m]
CustomConfigCallback(m, param_addr, param_val) ==
    IF param_addr = 0 THEN
        IF param_val >= 1 /\ param_val <= 247
        THEN [ok |-> TRUE, m |-> SetSlaveAddr(m, param_val % 256)]
        ELSE [ok |-> FALSE, m |-> m]
    ELSE IF param_addr = 1 THEN
        IF param_val >= 1 /\ param_val <= 8
        THEN [ok |-> TRUE, m |-> SetBaudRate(m, BAUD_RATE_TABLE[param_val + 1])]
        ELSE [ok |-> FALSE, m |-> m]
    ELSE [ok |-> FALSE, m |-> m]

(***************************************************************************)
(* Function handlers of Modbus_Process (the switch on func_code).          *)
(***************************************************************************)
\* rx_buf[i]; a load at or past rx_buf_size is out of bounds
RxAt(rx, i) == IF i < Len(rx) THEN At(rx, i) ELSE 0

RxOob(m, rx, i) == IF i < Len(rx) THEN m ELSE [m EXCEPT !.rx_oob = TRUE]

TxAt(m, size, i) == IF i < size THEN At(m.tx_buf, i) ELSE 0

\* the test of the pointer only
RegionAbsent_PtrOnly(ptr, count) == ptr = "NULL"

\* region == NULL || count == 0
RegionAbsent(ptr, count) == ptr = "NULL" \/ count = 0

\* The checks of a read request, in the order of the code: 0 = accepted
ReadCheck(absent, quantity, max_quantity, start_addr, count) ==
    IF absent THEN MB_EX_ILLEGAL_FUNCTION
    ELSE IF quantity < 1 \/ quantity > max_quantity THEN MB_EX_ILLEGAL_DATA_VALUE
    ELSE IF start_addr + quantity > count THEN MB_EX_ILLEGAL_DATA_ADDRESS
    ELSE 0

\* uint8_t byte_count = (quantity + 7) / 8
BitByteCount(quantity) == ((quantity + 7) \div 8) % 256

\* tx_buf[2] = quantity * 2, an octet
WordByteCount(quantity) == (quantity * 2) % 256

RECURSIVE PackBits(_, _, _, _, _, _)
\* for (i = 0; i < quantity; i++) if (region[bit_idx / 8] & (1 << (bit_idx % 8))) tx_buf[3 + i / 8] |= 1 << (i % 8)
PackBits(m, size, region, start_addr, quantity, i) ==
    IF i >= quantity THEN m
    ELSE LET bit_idx == (start_addr + i) % 65536
             m1 == IF BitOf(At(region, bit_idx \div 8), bit_idx % 8) = 1
                   THEN TxStore(m, size, 3 + i \div 8,
                                SetBit(TxAt(m, size, 3 + i \div 8), i % 8))
                   ELSE m
         IN PackBits(m1, size, region, start_addr, quantity, i + 1)

\* 0x01 Read Coils and 0x02 Read Discrete Inputs
ReadBits(h, m, func_code, rx, ptr, count, region) ==
    LET start_addr == Word(RxAt(rx, 2), RxAt(rx, 3))
        quantity == Word(RxAt(rx, 4), RxAt(rx, 5))
        ex == ReadCheck(RegionAbsent(ptr, count), quantity, 2000, start_addr, count)
        byte_count == BitByteCount(quantity)
        m1 == TxStore(m, h.tx_buf_size, 2, byte_count)
        m2 == TxZero(m1, h.tx_buf_size, 3, byte_count)
        m3 == PackBits(m2, h.tx_buf_size, region, start_addr, quantity, 0)
    IN IF ex # 0 THEN Modbus_SendException(h, m, func_code, ex)
       ELSE Modbus_SendResponse(h, m3, 3 + byte_count)

RECURSIVE PackWords(_, _, _, _, _, _)
\* the registers stored low octet first
PackWords_LowFirst(m, size, regs, start_addr, quantity, i) ==
    IF i >= quantity THEN m
    ELSE PackWords(TxStore(TxStore(m, size, 3 + i * 2, LowByte(At(regs, start_addr + i))),
                           size, 4 + i * 2, LowByte(At(regs, start_addr + i) \div 256)),
                   size, regs, start_addr, quantity, i + 1)

\* for (i = 0; i < quantity; i++) { tx_buf[3 + i * 2] = regs[start + i] >> 8; tx_buf[4 + i * 2] = regs[start + i] & 0xFF; }
PackWords(m, size, regs, start_addr, quantity, i) ==
    IF i >= quantity THEN m
    ELSE LET v == At(regs, start_addr + i)
             m1 == TxStore(m, size, 3 + i * 2, LowByte(v \div 256))
             m2 == TxStore(m1, size, 4 + i * 2, LowByte(v))
         IN PackWords(m2, size, regs, start_addr, quantity, i + 1)

\* 0x03 Read Holding Registers and 0x04 Read Input Registers
ReadWords(h, m, func_code, rx, ptr, count, regs) ==
    LET start_addr == Word(RxAt(rx, 2), RxAt(rx, 3))
        quantity == Word(RxAt(rx, 4), RxAt(rx, 5))
        ex == ReadCheck(RegionAbsent(ptr, count), quantity, 125, start_addr, count)
        m1 == TxStore(m, h.tx_buf_size, 2, WordByteCount(quantity))
        m2 == PackWords(m1, h.tx_buf_size, regs, start_addr, quantity, 0)
    IN IF ex # 0 THEN Modbus_SendException(h, m, func_code, ex)
       ELSE Modbus_SendResponse(h, m2, 3 + quantity * 2)

\* a call of a host callback: its arguments, what it returned and the register
\* file it could see
CbCall(m, cb, args, ret) ==
    [cb |-> cb, args |-> args, ret |-> ret, coils |-> m.coils, holding_regs |-> m.holding_regs]

\* the call recorded twice
CallWriteCb_Twice(m, func_code, start_addr, quantity, ret) ==
    LET call == CbCall(m, "write_cb", <<func_code, start_addr, quantity>>, ret)
    IN [m EXCEPT !.cb_calls = Append(Append(@, call), call)]

\* write_cb(hmodbus, func_code, start_addr, quantity) returning ret: the call is recorded
CallWriteCb(m, func_code, start_addr, quantity, ret) ==
    [m EXCEPT !.cb_calls =
        Append(@, CbCall(m, "write_cb", <<func_code, start_addr, quantity>>, ret))]

\* the store that sets a coil and never clears one
StoreCoil_NoClear(coils, addr, on) ==
    [coils EXCEPT ![addr \div 8 + 1] = IF on THEN SetBit(@, addr % 8) ELSE @]

\* the store that inverts the coil where it should set it
StoreCoil_Toggle(coils, addr, on) ==
    [coils EXCEPT ![addr \div 8 + 1] =
        IF on /\ BitOf(@, addr % 8) = 0 THEN SetBit(@, addr % 8) ELSE ClearBit(@, addr % 8)]

\* the store that assigns the mask where it should or it in
StoreCoil_WholeOctet(coils, addr, on) ==
    [coils EXCEPT ![addr \div 8 + 1] = IF on THEN Pow2(addr % 8) ELSE 0]

\* coils[addr / 8] |= 1 << (addr % 8)  or  &= ~(1 << (addr % 8))
StoreCoil(coils, addr, on) ==
    [coils EXCEPT ![addr \div 8 + 1] =
        IF on THEN SetBit(@, addr % 8) ELSE ClearBit(@, addr % 8)]

\* every value other than 0x0000 taken as a set
WriteSingleCoilValue_NonZeroSets(coils, start_addr, val) ==
    StoreCoil(coils, start_addr, val # 0)

\* The effect of a 0x05 value on the coil region
WriteSingleCoilValue(coils, start_addr, val) ==
    IF val = 65280 THEN StoreCoil(coils, start_addr, TRUE)
    ELSE IF val = 0 THEN StoreCoil(coils, start_addr, FALSE)
    ELSE coils

\* the copy sent as it is, with the address octet of the request
EchoRequest_Raw(h, m, rx) ==
    Modbus_SendResponse(h, TxCopy(m, h.tx_buf_size, 0, rx, 0, 6), 6)

\* memcpy(tx_buf, rx_buf, 6); tx_buf[0] = slave_addr; SendResponse(6)
EchoRequest(h, m, rx) ==
    LET m1 == TxCopy(m, h.tx_buf_size, 0, rx, 0, 6)
        m2 == TxStore(m1, h.tx_buf_size, 0, m1.slave_addr)
    IN Modbus_SendResponse(h, m2, 6)

\* 0x05 Write Single Coil
WriteSingleCoil(h, m, func_code, rx, env) ==
    LET start_addr == Word(RxAt(rx, 2), RxAt(rx, 3))
        val == Word(RxAt(rx, 4), RxAt(rx, 5))
        mc == CallWriteCb(m, func_code, start_addr, 1, env.wr_ok)
        mw == IF h.write_cb # "NULL" THEN mc ELSE m
    IN IF RegionAbsent(h.data_map.coils, h.data_map.coil_count)
       THEN Modbus_SendException(h, m, func_code, MB_EX_ILLEGAL_FUNCTION)
       ELSE IF start_addr >= h.data_map.coil_count
       THEN Modbus_SendException(h, m, func_code, MB_EX_ILLEGAL_DATA_ADDRESS)
       ELSE IF h.write_cb # "NULL" /\ ~env.wr_ok
       THEN Modbus_SendException(h, mc, func_code, MB_EX_SLAVE_DEVICE_FAILURE)
       ELSE EchoRequest(h, [mw EXCEPT !.coils = WriteSingleCoilValue(@, start_addr, val)], rx)

RECURSIVE UnpackBits(_, _, _, _, _)
\* the data octets taken most significant bit first
UnpackBits_MsbFirst(m, rx, start_addr, quantity, i) ==
    IF i >= quantity THEN m
    ELSE UnpackBits([m EXCEPT !.coils = StoreCoil(@, (start_addr + i) % 65536,
                                                  BitOf(RxAt(rx, 7 + i \div 8), 7 - (i % 8)) = 1)],
                    rx, start_addr, quantity, i + 1)

\* for (i = 0; i < quantity; i++) coil[start + i] = (rx_buf[7 + i / 8] >> (i % 8)) & 1
UnpackBits(m, rx, start_addr, quantity, i) ==
    IF i >= quantity THEN m
    ELSE LET val == BitOf(RxAt(rx, 7 + i \div 8), i % 8)
             m1 == RxOob(m, rx, 7 + i \div 8)
         IN UnpackBits([m1 EXCEPT !.coils = StoreCoil(@, (start_addr + i) % 65536, val = 1)],
                       rx, start_addr, quantity, i + 1)

\* memcpy(&tx_buf[2], &rx_buf[2], 4); SendResponse(6)
AckMulti(h, m, rx) == Modbus_SendResponse(h, TxCopy(m, h.tx_buf_size, 2, rx, 2, 4), 6)

\* 0x0F Write Multiple Coils
WriteMultiCoils(h, m, func_code, rx, env) ==
    LET start_addr == Word(RxAt(rx, 2), RxAt(rx, 3))
        quantity == Word(RxAt(rx, 4), RxAt(rx, 5))
        mc == CallWriteCb(m, func_code, start_addr, quantity, env.wr_ok)
        mw == IF h.write_cb # "NULL" THEN mc ELSE m
    IN IF RegionAbsent(h.data_map.coils, h.data_map.coil_count)
       THEN Modbus_SendException(h, m, func_code, MB_EX_ILLEGAL_FUNCTION)
       ELSE IF start_addr + quantity > h.data_map.coil_count
       THEN Modbus_SendException(h, m, func_code, MB_EX_ILLEGAL_DATA_ADDRESS)
       ELSE IF h.write_cb # "NULL" /\ ~env.wr_ok
       THEN Modbus_SendException(h, mc, func_code, MB_EX_SLAVE_DEVICE_FAILURE)
       ELSE AckMulti(h, UnpackBits(mw, rx, start_addr, quantity, 0), rx)

\* 0x06 Write Single Register
WriteSingleReg(h, m, func_code, rx, env) ==
    LET start_addr == Word(RxAt(rx, 2), RxAt(rx, 3))
        val == Word(RxAt(rx, 4), RxAt(rx, 5))
        mc == CallWriteCb(m, func_code, start_addr, 1, env.wr_ok)
        mw == IF h.write_cb # "NULL" THEN mc ELSE m
    IN IF RegionAbsent(h.data_map.holding_regs, h.data_map.holding_reg_count)
       THEN Modbus_SendException(h, m, func_code, MB_EX_ILLEGAL_FUNCTION)
       ELSE IF start_addr >= h.data_map.holding_reg_count
       THEN Modbus_SendException(h, m, func_code, MB_EX_ILLEGAL_DATA_ADDRESS)
       ELSE IF h.write_cb # "NULL" /\ ~env.wr_ok
       THEN Modbus_SendException(h, mc, func_code, MB_EX_SLAVE_DEVICE_FAILURE)
       ELSE EchoRequest(h, [mw EXCEPT !.holding_regs[start_addr + 1] = val], rx)

RECURSIVE UnpackWords(_, _, _, _, _)
\* for (i = 0; i < quantity; i++) regs[start + i] = (rx_buf[7 + i * 2] << 8) | rx_buf[8 + i * 2]
UnpackWords(m, rx, start_addr, quantity, i) ==
    IF i >= quantity THEN m
    ELSE LET val == Word(RxAt(rx, 7 + i * 2), RxAt(rx, 8 + i * 2))
             m1 == RxOob(m, rx, 8 + i * 2)
         IN UnpackWords([m1 EXCEPT !.holding_regs[start_addr + i + 1] = val],
                        rx, start_addr, quantity, i + 1)

\* 0x10 Write Multiple Registers
WriteMultiRegs(h, m, func_code, rx, env) ==
    LET start_addr == Word(RxAt(rx, 2), RxAt(rx, 3))
        quantity == Word(RxAt(rx, 4), RxAt(rx, 5))
        mc == CallWriteCb(m, func_code, start_addr, quantity, env.wr_ok)
        mw == IF h.write_cb # "NULL" THEN mc ELSE m
    IN IF RegionAbsent(h.data_map.holding_regs, h.data_map.holding_reg_count)
       THEN Modbus_SendException(h, m, func_code, MB_EX_ILLEGAL_FUNCTION)
       ELSE IF start_addr + quantity > h.data_map.holding_reg_count
       THEN Modbus_SendException(h, m, func_code, MB_EX_ILLEGAL_DATA_ADDRESS)
       ELSE IF h.write_cb # "NULL" /\ ~env.wr_ok
       THEN Modbus_SendException(h, mc, func_code, MB_EX_SLAVE_DEVICE_FAILURE)
       ELSE AckMulti(h, UnpackWords(mw, rx, start_addr, quantity, 0), rx)

\* 0x64 Custom Configuration
CustomConfig(h, m, func_code, rx, rx_len) ==
    LET param_addr == Word(RxAt(rx, 2), RxAt(rx, 3))
        param_val == Word(RxAt(rx, 4), RxAt(rx, 5))
        r == CustomConfigCallback(m, param_addr, param_val)
        mc == [r.m EXCEPT !.cb_calls =
                  Append(@, CbCall(m, "custom_config_cb", <<param_addr, param_val>>, r.ok))]
    IN IF rx_len # 8
       THEN Modbus_SendException(h, m, func_code, MB_EX_ILLEGAL_DATA_VALUE)
       ELSE IF h.custom_config_cb = "NULL"
       THEN Modbus_SendException(h, m, func_code, MB_EX_ILLEGAL_FUNCTION)
       ELSE IF r.ok THEN EchoRequest(h, mc, rx)
       ELSE Modbus_SendException(h, mc, func_code, MB_EX_ILLEGAL_DATA_VALUE)

\* Step 4 of Modbus_Process: response header, then the switch on func_code
Dispatch(h, m, rx, rx_len, env) ==
    LET func_code == RxAt(rx, 1)
        m0 == TxStore(TxStore(m, h.tx_buf_size, 0, m.slave_addr), h.tx_buf_size, 1, func_code)
    IN CASE func_code = MB_FUNC_READ_COILS ->
              ReadBits(h, m0, func_code, rx, h.data_map.coils, h.data_map.coil_count, m0.coils)
         [] func_code = MB_FUNC_WRITE_SINGLE_COIL -> WriteSingleCoil(h, m0, func_code, rx, env)
         [] func_code = MB_FUNC_WRITE_MULTI_COILS -> WriteMultiCoils(h, m0, func_code, rx, env)
         [] func_code = MB_FUNC_READ_DISCRETE ->
              ReadBits(h, m0, func_code, rx, h.data_map.discrete_inputs,
                       h.data_map.discrete_count, m0.discrete_inputs)
         [] func_code = MB_FUNC_READ_HOLDING ->
              ReadWords(h, m0, func_code, rx, h.data_map.holding_regs,
                        h.data_map.holding_reg_count, m0.holding_regs)
         [] func_code = MB_FUNC_WRITE_SINGLE_REG -> WriteSingleReg(h, m0, func_code, rx, env)
         [] func_code = MB_FUNC_WRITE_MULTI_REGS -> WriteMultiRegs(h, m0, func_code, rx, env)
         [] func_code = MB_FUNC_READ_INPUT ->
              ReadWords(h, m0, func_code, rx, h.data_map.input_regs,
                        h.data_map.input_reg_count, m0.input_regs)
         [] func_code = MB_FUNC_CUSTOM_CONFIG -> CustomConfig(h, m0, func_code, rx, rx_len)
         [] OTHER -> Modbus_SendException(h, m0, func_code, MB_EX_ILLEGAL_FUNCTION)

(***************************************************************************)
(* Steps 1-3 of Modbus_Process: length, address and CRC checks.            *)
(***************************************************************************)
\* the filter also letting the standard broadcast address 0 through
AddrMatch_Zero(req_addr, slave_addr) ==
    req_addr = slave_addr \/ req_addr = 255 \/ req_addr = 0

\* the filter left out
AddrMatch_Any(req_addr, slave_addr) == TRUE

\* !(req_addr != slave_addr && req_addr != 0xFF)
AddrMatch(req_addr, slave_addr) == req_addr = slave_addr \/ req_addr = 255

\* (rx_buf[rx_len - 1] << 8) | rx_buf[rx_len - 2]
ReceivedCrc(rx, rx_len) == Word(RxAt(rx, rx_len - 1), RxAt(rx, rx_len - 2))

\* the comparison of the low octets only
CrcMatch_LowOctet(received_crc, calculated_crc) ==
    received_crc % 256 = calculated_crc % 256

\* !(received_crc != calculated_crc)
CrcMatch(received_crc, calculated_crc) == received_crc = calculated_crc

Validate(h, rx, rx_len) ==
    IF rx_len < 4 THEN "short"
    ELSE IF ~AddrMatch(RxAt(rx, 0), h.slave_addr) THEN "addr"
    ELSE IF ~CrcMatch(ReceivedCrc(rx, rx_len), Modbus_CRC16(h.use_crc_table, rx, rx_len - 2))
    THEN "crc"
    ELSE "valid"

(***************************************************************************)
(* Modbus_Init.                                                            *)
(***************************************************************************)
FullMap == [coils |-> "g_coils", coil_count |-> CoilCount,
            discrete_inputs |-> "g_discrete_inputs", discrete_count |-> DiscreteCount,
            holding_regs |-> "g_holding_regs", holding_reg_count |-> HoldingRegCount,
            input_regs |-> "g_input_regs", input_reg_count |-> InputRegCount]

\* every region absent: by null pointer (coils, holding) or by zero count (discrete, input)
AbsentMap == [coils |-> "NULL", coil_count |-> CoilCount,
              discrete_inputs |-> "g_discrete_inputs", discrete_count |-> 0,
              holding_regs |-> "NULL", holding_reg_count |-> HoldingRegCount,
              input_regs |-> "g_input_regs", input_reg_count |-> 0]

Config(addr, txsize, map, table, ccb, wcb) ==
    [huart |-> "huart1", slave_addr |-> addr, baud_rate |-> 9600,
     rx_buf_a |-> "A", rx_buf_b |-> "B", tx_buf |-> "tx",
     rx_buf_size |-> RxBufSize, tx_buf_size |-> txsize,
     data_map |-> map, use_dma_tx |-> FALSE, use_crc_table |-> table,
     rs485 |-> [enabled |-> FALSE, de_port |-> "NULL", de_polarity |-> TRUE],
     custom_config_cb |-> ccb, write_cb |-> wcb]

\* table CRC, both callbacks, roomy transmit buffer, RS-485 with DE/RE on a pin
ConfigFull ==
    [Config(1, TxBufSize, FullMap, TRUE, "CustomConfigCallback", "WriteCallback")
        EXCEPT !.rs485 = [enabled |-> TRUE, de_port |-> "GPIOA", de_polarity |-> TRUE]]
\* shift CRC, no write callback, the smallest transmit buffer Modbus_Init accepts
ConfigSmall == Config(1, 8, FullMap, FALSE, "CustomConfigCallback", "NULL")
\* no data region, no callback
ConfigBare == Config(1, TxBufSize, AbsentMap, FALSE, "NULL", "NULL")

\* every region absent the other way round: zero count (coils, holding) or null pointer
ZeroCountMap == [coils |-> "g_coils", coil_count |-> 0,
                 discrete_inputs |-> "NULL", discrete_count |-> DiscreteCount,
                 holding_regs |-> "g_holding_regs", holding_reg_count |-> 0,
                 input_regs |-> "NULL", input_reg_count |-> InputRegCount]

\* no data region, both callbacks
ConfigGuarded == Config(1, TxBufSize, ZeroCountMap, TRUE, "CustomConfigCallback", "WriteCallback")

Configs ==
    { ConfigFull, ConfigSmall, ConfigBare,
      Config(0, TxBufSize, FullMap, TRUE, "NULL", "NULL"),
      Config(248, TxBufSize, FullMap, TRUE, "NULL", "NULL"),
      Config(1, 7, FullMap, TRUE, "NULL", "NULL") }

\* the parameter checks without the one of the buffer sizes
InitAccepts_NoSize(config) ==
    /\ config.huart # "NULL"
    /\ config.rx_buf_a # "NULL" /\ config.rx_buf_b # "NULL" /\ config.tx_buf # "NULL"
    /\ ~(config.slave_addr < 1 \/ config.slave_addr > 247)

\* The parameter checks of Modbus_Init: TRUE iff it returns true
InitAccepts(config) ==
    /\ config.huart # "NULL"
    /\ config.rx_buf_a # "NULL" /\ config.rx_buf_b # "NULL" /\ config.tx_buf # "NULL"
    /\ ~(config.rx_buf_size < 8 \/ config.tx_buf_size < 8)
    /\ ~(config.slave_addr < 1 \/ config.slave_addr > 247)

\* The handle Modbus_Init fills in
InitHandle(config) ==
    [huart |-> config.huart, slave_addr |-> config.slave_addr, baud_rate |-> config.baud_rate,
     rx_buf_size |-> config.rx_buf_size, tx_buf_size |-> config.tx_buf_size,
     rx_active_buf |-> config.rx_buf_a, rx_process_buf |-> config.rx_buf_b,
     rx_len |-> 0, rx_ready |-> 0,
     data_map |-> config.data_map,
     use_dma_tx |-> config.use_dma_tx, use_crc_table |-> config.use_crc_table,
     rs485 |-> config.rs485,
     custom_config_cb |-> config.custom_config_cb, write_cb |-> config.write_cb]

\* the UART after reset: transmitter idle with the TC flag set, no DMA
\* transfer (frame: the octets handed to the DMA), and the DE/RE pin not
\* driven by the engine
UartReset == [de |-> "undriven", tc |-> TRUE, tx_left |-> 0, busy |-> FALSE, frame |-> <<>>]

\* no pin write and no frame yet
NoDrives == [de_drives |-> <<>>, sent |-> <<>>]

\* the pin after the HAL_GPIO_WritePin calls recorded in m, if any
UartDrive(u, m) ==
    IF m.de_drives = <<>> THEN u ELSE [u EXCEPT !.de = m.de_drives[Len(m.de_drives)].level]

\* if (hmodbus->rs485.enabled) Modbus_RS485_SetRxMode(hmodbus);
InitUart(h, u) == IF h.rs485.enabled THEN UartDrive(u, RS485_SetRxMode(h, NoDrives)) ELSE u

\* a handle in static storage before any Modbus_Init call: all zero
ZeroMap == [coils |-> "NULL", coil_count |-> 0, discrete_inputs |-> "NULL", discrete_count |-> 0,
            holding_regs |-> "NULL", holding_reg_count |-> 0,
            input_regs |-> "NULL", input_reg_count |-> 0]

ZeroHandle ==
    [huart |-> "NULL", slave_addr |-> 0, baud_rate |-> 0, rx_buf_size |-> 0, tx_buf_size |-> 0,
     rx_active_buf |-> "NULL", rx_process_buf |-> "NULL", rx_len |-> 0, rx_ready |-> 0,
     data_map |-> ZeroMap, use_dma_tx |-> FALSE, use_crc_table |-> FALSE,
     rs485 |-> [enabled |-> FALSE, de_port |-> "NULL", de_polarity |-> FALSE],
     custom_config_cb |-> "NULL", write_cb |-> "NULL"]

\* no Modbus_Init call yet; and the call that returned true for a configuration
NoInitCall == [n |-> 0, hmodbus |-> "NULL", config |-> "NULL", args |-> ZeroHandle, ret |-> FALSE]
InitCalled(config) ==
    [n |-> 1, hmodbus |-> "&hModbus1", config |-> "&config1", args |-> config, ret |-> TRUE]

\* no Modbus_Process call is running
IdleProc == [pc |-> "idle", rx_buf |-> "A", rx_len |-> 0, total_len |-> 0, tx_cb |-> "idle",
             i |-> 0, octet |-> 0]

\* Nothing observed of a Modbus_Process call
NoObs == [verdict |-> "none", req |-> <<>>, slave_addr |-> 0, addr_out |-> 0,
          sent |-> <<>>, tx_oob |-> FALSE, rx_oob |-> FALSE, cb_calls |-> <<>>,
          de_drives |-> <<>>, snap_bytes |-> <<>>, irqs |-> 0]

\* No run received yet
NoHist == [age |-> [b \in Bufs |-> 0], resp_age |-> 0,
           pend |-> "none", pend_buf |-> "A", pend_len |-> 0]

\* Nothing written by the master yet (-1: not written)
NoShadow == [coils |-> [a \in 0..(CoilCount - 1) |-> -1],
             regs |-> [a \in 0..(HoldingRegCount - 1) |-> -1]]

\* the application has one instance only
NoInstance == [h |-> ZeroHandle]

\* the application is not built from the single-instance variant
NoLegacy == [slave_addr |-> 0]

\* the holding registers of the application: the array the data map announces
RegStorage(map) ==
    Zeros(IF map.holding_reg_count > HoldingRegCount THEN map.holding_reg_count
          ELSE HoldingRegCount)

\* nothing written yet to the registers of the application
ShadowOf(map) == [NoShadow EXCEPT !.regs = [a \in 0..(Len(RegStorage(map)) - 1) |-> -1]]

\* The first instance after Modbus_Init(config) returned true, on a bus delivering a
\* family's runs, and the register storage
InitOne(configs, family) ==
    \E config \in configs :
        /\ InitAccepts(config)
        /\ hmodbus = InitHandle(config)
        /\ rx_mem = [b \in Bufs |-> Zeros(config.rx_buf_size)]
        /\ tx_buf = Zeros(config.tx_buf_size)
        /\ g_coils = Zeros((CoilCount + 7) \div 8)
        /\ g_discrete_inputs = [i \in 1..((DiscreteCount + 7) \div 8) |-> IF i = 1 THEN 165 ELSE 2]
        /\ g_holding_regs = RegStorage(config.data_map)
        /\ g_input_regs = [i \in 1..InputRegCount |-> IF i = 1 THEN 4660 ELSE 43981]
        /\ armed = hmodbus.rx_active_buf       \* Modbus_StartReceive at the end of Modbus_Init
        /\ proc = IdleProc
        /\ line \in family
        /\ obs = NoObs
        /\ hist = NoHist
        /\ shadow = ShadowOf(config.data_map)
        /\ uart = InitUart(hmodbus, UartReset)
        /\ init_call = InitCalled(config)

\* The state after Modbus_Init(config) returned true, on a bus delivering a family's runs
InitWith(configs, family) ==
    InitOne(configs, family) /\ mb2 = NoInstance /\ legacy = NoLegacy

(***************************************************************************)
(* Interrupt context: a byte run ends; the driver has stored it in the     *)
(* buffer it was armed on and the HAL calls Modbus_RxCallback(size).       *)
(* Runs are ranked by age: 1 is the newest run, 2 the one before it.       *)
(***************************************************************************)
Min(a, b) == IF a < b THEN a ELSE b

AgeCap == MaxIrqs + 1

Older(age) == IF age = 0 THEN 0 ELSE Min(age + 1, AgeCap)

\* the octets of the run over the previous contents of the buffer
StoreRun(buf, run, size) == [i \in 1..Len(buf) |-> IF i <= size THEN run[i] ELSE buf[i]]

\* the swap left out: the active buffer stays where it is
SwapActive_Keep(completed_buf) == completed_buf

\* rx_active_buf = (completed_buf == rx_buf_a) ? rx_buf_b : rx_buf_a
SwapActive(completed_buf) == OtherBuf(completed_buf)

\* the handle after Modbus_RxCallback(hmodbus, size)
RxCallbackHandle(h, size) ==
    LET completed_buf == h.rx_active_buf
    IN [h EXCEPT !.rx_active_buf = SwapActive(completed_buf),
                 !.rx_process_buf = completed_buf,
                 !.rx_len = size,
                 !.rx_ready = 1]

\* the driver re-armed on the buffer that has just completed
Rearm_Completed(h) == h.rx_process_buf

\* the buffer HAL_UARTEx_ReceiveToIdle_IT is called with
Rearm(h) == h.rx_active_buf

\* a Modbus_Process call holds its snapshot of the pending pointer
InCall == proc.pc \notin {"idle", "snap_buf"}

Modbus_RxCallback(run) ==
    LET size == Min(Len(run), hmodbus.rx_buf_size)
    IN /\ armed \in Bufs
       /\ InCall => obs.irqs < MaxIrqs
       /\ rx_mem' = [rx_mem EXCEPT ![armed] = StoreRun(@, run, size)]
       /\ hmodbus' = RxCallbackHandle(hmodbus, size)
       /\ armed' = Rearm(hmodbus')
       /\ hist' = [hist EXCEPT !.age = [b \in Bufs |-> IF b = armed THEN 1 ELSE Older(hist.age[b])],
                               !.resp_age = Older(@),
                               !.pend = "pending",
                               !.pend_buf = armed,
                               !.pend_len = size]
       /\ obs' = IF InCall THEN [obs EXCEPT !.irqs = @ + 1] ELSE obs
       /\ UNCHANGED <<tx_buf, g_coils, g_discrete_inputs, g_holding_regs, g_input_regs,
                      proc, line, shadow, uart, init_call, mb2, legacy>>

Modbus_StartReceive ==
    /\ armed' = IF hmodbus.huart # "NULL" THEN hmodbus.rx_active_buf ELSE armed
    /\ UNCHANGED <<hmodbus, rx_mem, tx_buf, g_coils, g_discrete_inputs, g_holding_regs,
                   g_input_regs, proc, line, obs, hist, shadow, uart, init_call, mb2, legacy>>

(***************************************************************************)
(* Main loop context.                                                      *)
(***************************************************************************)
Modbus_SetSlaveAddr(addr) ==
    /\ proc.pc = "idle"
    /\ hmodbus' = SetSlaveAddr(hmodbus, addr)
    /\ UNCHANGED <<rx_mem, tx_buf, g_coils, g_discrete_inputs, g_holding_regs, g_input_regs,
                   armed, proc, line, obs, hist, shadow, uart, init_call, mb2, legacy>>

\* the host calls Modbus_SetBaudRate(hmodbus, baud_rate)
Modbus_SetBaudRate(baud) ==
    /\ proc.pc = "idle"
    /\ hmodbus' = SetBaudRate(hmodbus, baud)
    /\ UNCHANGED <<rx_mem, tx_buf, g_coils, g_discrete_inputs, g_holding_regs, g_input_regs,
                   armed, proc, line, obs, hist, shadow, uart, init_call, mb2, legacy>>

\* what a Modbus_Process call reads and writes, from the variables
Machine ==
    [h |-> hmodbus, p |-> proc, rx_mem |-> rx_mem, tx_buf |-> tx_buf, coils |-> g_coils,
     holding_regs |-> g_holding_regs, obs |-> obs, hist |-> hist, shadow |-> shadow]

\* the working state of the function handlers
Working(st) ==
    [slave_addr |-> st.h.slave_addr, baud_rate |-> st.h.baud_rate,
     tx_buf |-> st.tx_buf, coils |-> st.coils, discrete_inputs |-> g_discrete_inputs,
     holding_regs |-> st.holding_regs, input_regs |-> g_input_regs,
     sent |-> <<>>, tx_oob |-> FALSE, rx_oob |-> FALSE, cb_calls |-> <<>>,
     de_drives |-> <<>>]

\* the results a write_cb can return for this call
Envs(h) == { [wr_ok |-> b] : b \in IF h.write_cb = "NULL" THEN {TRUE} ELSE BOOLEAN }

\* if (!hmodbus->rx_ready) return;
TestReady(st) ==
    IF st.h.rx_ready # 0
    THEN [st EXCEPT !.p.pc = "snap_buf", !.obs = [NoObs EXCEPT !.verdict = "ready"]]
    ELSE [st EXCEPT !.obs = NoObs]

\* uint8_t *rx_buf = hmodbus->rx_process_buf;
SnapBuf(st) ==
    [st EXCEPT !.p.rx_buf = st.h.rx_process_buf,
               !.p.pc = "snap_len",
               !.obs.snap_bytes = st.rx_mem[st.h.rx_process_buf],
               !.hist.pend = IF @ = "pending" THEN "pointer" ELSE @]

\* uint16_t rx_len = hmodbus->rx_len;
SnapLen(st) ==
    [st EXCEPT !.p.rx_len = st.h.rx_len,
               !.p.pc = "clear_ready",
               !.hist.pend = IF @ = "pointer" THEN "taken" ELSE @]

\* hmodbus->rx_ready = 0;
ClearReady(st) == [st EXCEPT !.h.rx_ready = 0, !.p.pc = "clear_len"]

\* hmodbus->rx_len = 0;
ClearLen(st) == [st EXCEPT !.h.rx_len = 0, !.p.pc = "validate"]

\* the call goes on to step 4 if the frame is valid and returns if not
Checked(st, rx, v) ==
    [st EXCEPT !.p = IF v = "valid" THEN [@ EXCEPT !.pc = "dispatch"] ELSE IdleProc,
               !.obs.verdict = v,
               !.obs.req = SubSeq(rx, 1, Min(st.p.rx_len, Len(rx))),
               !.obs.slave_addr = st.h.slave_addr,
               !.obs.addr_out = st.h.slave_addr]

\* steps 1-3: the frame in the snapshotted buffer is checked
CheckFrame(st) ==
    Checked(st, st.rx_mem[st.p.rx_buf], Validate(st.h, st.rx_mem[st.p.rx_buf], st.p.rx_len))

\* the values a successful write request of the master carries, element by element
ShadowWrite(sh, rx, resp) ==
    LET func_code == RxAt(rx, 1)
        start_addr == Word(RxAt(rx, 2), RxAt(rx, 3))
        val == Word(RxAt(rx, 4), RxAt(rx, 5))
    IN IF resp = <<>> \/ resp[1][2] # func_code THEN sh
       ELSE IF func_code = MB_FUNC_WRITE_SINGLE_REG
       THEN [sh EXCEPT !.regs[start_addr] = val]
       ELSE IF func_code = MB_FUNC_WRITE_MULTI_REGS
       THEN [sh EXCEPT !.regs = [a \in DOMAIN @ |->
                IF a >= start_addr /\ a < start_addr + val
                THEN Word(RxAt(rx, 7 + 2 * (a - start_addr)), RxAt(rx, 8 + 2 * (a - start_addr)))
                ELSE @[a]]]
       ELSE IF func_code = MB_FUNC_WRITE_SINGLE_COIL
       THEN IF val = 65280 THEN [sh EXCEPT !.coils[start_addr] = 1]
            ELSE IF val = 0 THEN [sh EXCEPT !.coils[start_addr] = 0]
            ELSE sh
       ELSE IF func_code = MB_FUNC_WRITE_MULTI_COILS
       THEN [sh EXCEPT !.coils = [a \in DOMAIN @ |->
                IF a >= start_addr /\ a < start_addr + val
                THEN BitOf(RxAt(rx, 7 + (a - start_addr) \div 8), (a - start_addr) % 8)
                ELSE @[a]]]
       ELSE sh

\* the call returns: the working state m of the handlers is the state of the instance
Responded(st, rx, m) ==
    [st EXCEPT !.h.slave_addr = m.slave_addr,
               !.h.baud_rate = m.baud_rate,
               !.p = IdleProc,
               !.tx_buf = m.tx_buf,
               !.coils = m.coils,
               !.holding_regs = m.holding_regs,
               !.obs.addr_out = m.slave_addr,
               !.obs.sent = m.sent,
               !.obs.tx_oob = m.tx_oob,
               !.obs.rx_oob = m.rx_oob,
               !.obs.cb_calls = m.cb_calls,
               !.obs.de_drives = m.de_drives,
               !.hist.resp_age = IF m.sent = <<>> THEN @ ELSE st.hist.age[st.p.rx_buf],
               !.shadow = ShadowWrite(@, rx, m.sent)]

\* step 4: the response header, the switch on func_code and the transmission
Respond(st, env) ==
    Responded(st, st.rx_mem[st.p.rx_buf],
              Dispatch(st.h, Working(st), st.rx_mem[st.p.rx_buf], st.p.rx_len, env))

\* write the state of the call back to the variables
Commit(st) ==
    /\ hmodbus' = st.h
    /\ proc' = st.p
    /\ tx_buf' = st.tx_buf
    /\ g_coils' = st.coils
    /\ g_holding_regs' = st.holding_regs
    /\ obs' = st.obs
    /\ hist' = st.hist
    /\ shadow' = st.shadow
    /\ UNCHANGED <<rx_mem, g_discrete_inputs, g_input_regs, armed, line, uart, init_call, mb2, legacy>>

\* the call after the checks: it has returned, or goes on to step 4
FromChecked(st, env) == IF st.p.pc = "idle" THEN st ELSE Respond(st, env)

\* the call after the rx_ready test: it has returned, or goes on to the snapshots
FromReady(st, env) ==
    IF st.p.pc = "idle" THEN st
    ELSE FromChecked(CheckFrame(ClearLen(ClearReady(SnapLen(SnapBuf(st))))), env)

\* Modbus_Process run from its entry to its return without preemption
Modbus_Process ==
    /\ proc.pc = "idle"
    /\ \E env \in Envs(hmodbus) : Commit(FromReady(TestReady(Machine), env))

\* the call at ((uint32_t)total_len * 10 * 1000) / hmodbus->baud_rate with
\* baud_rate = 0, where the division traps: the response is in tx_buf, the
\* pin is at the transmit level, nothing is handed to the UART
Trapped(st) ==
    [st EXCEPT !.p = [IdleProc EXCEPT !.pc = "fault"],
               !.obs.sent = <<>>,
               !.obs.de_drives = SubSeq(@, 1, Min(1, Len(@)))]

\* Modbus_Process dividing by a baud rate of 0 on the blocking path.  The
\* result is undefined: the division yields a quotient and the call goes on
\* (Modbus_Process), or it traps and the call does not return (this action).
Process_DivideFault ==
    /\ proc.pc = "idle"
    /\ hmodbus.baud_rate = 0 /\ ~hmodbus.use_dma_tx
    /\ \E env \in Envs(hmodbus) :
          /\ FromReady(TestReady(Machine), env).obs.sent # <<>>
          /\ Commit(Trapped(FromReady(TestReady(Machine), env)))

\* Modbus_Process statement by statement, for preemption by the receive interrupt
Process_TestReady == proc.pc = "idle" /\ Commit(TestReady(Machine))
Process_SnapBuf == proc.pc = "snap_buf" /\ Commit(SnapBuf(Machine))
Process_SnapLen == proc.pc = "snap_len" /\ Commit(SnapLen(Machine))
Process_ClearReady == proc.pc = "clear_ready" /\ Commit(ClearReady(Machine))
Process_ClearLen == proc.pc = "clear_len" /\ Commit(ClearLen(Machine))
Process_CheckFrame == proc.pc = "validate" /\ Commit(CheckFrame(Machine))
Process_Respond ==
    /\ proc.pc = "dispatch"
    /\ \E env \in Envs(hmodbus) : Commit(Respond(Machine, env))

(***************************************************************************)
(* Modbus_SendResponse from the DE/RE pin on, statement by statement, with *)
(* the transmitter shifting the octets out and Modbus_TxCallback.          *)
(***************************************************************************)
\* Modbus_Process up to the CRC stored in tx_buf: the call is about to drive the pin
Built(st) ==
    IF st.obs.sent = <<>> THEN st
    ELSE [st EXCEPT !.p = [IdleProc EXCEPT !.pc = "set_tx", !.total_len = Len(st.obs.sent[1])],
                    !.obs.sent = <<>>,
                    !.obs.de_drives = <<>>]

\* the pin writes and the frames handed to the UART so far, and the transmit buffer
Sending == [de_drives |-> obs.de_drives, sent |-> obs.sent, tx_buf |-> tx_buf]

\* a statement of the transmission: the pin writes and frames m, the transmitter u, the position p
SendStep(m, u, p) ==
    /\ obs' = [obs EXCEPT !.de_drives = m.de_drives, !.sent = m.sent]
    /\ uart' = u
    /\ proc' = p
    /\ UNCHANGED <<hmodbus, rx_mem, tx_buf, g_coils, g_discrete_inputs, g_holding_regs,
                   g_input_regs, armed, line, hist, shadow, init_call, mb2, legacy>>

\* the main loop runs: no callback has preempted it
InMain == proc.tx_cb = "idle"

Process_Build ==
    /\ InMain
    /\ proc.pc = "idle"
    /\ \E env \in Envs(hmodbus) : Commit(Built(FromReady(TestReady(Machine), env)))

\* Modbus_RS485_SetTxMode(hmodbus);
Send_SetTxMode ==
    /\ InMain
    /\ proc.pc = "set_tx"
    /\ SendStep(RS485_SetTxMode(hmodbus, Sending),
                UartDrive(uart, RS485_SetTxMode(hmodbus, Sending)),
                [proc EXCEPT !.pc = "transmit"])

\* the transmitter given total_len octets: TC is reset until the last one is out
UartStart(u, total_len, dma) == [u EXCEPT !.tx_left = total_len, !.tc = FALSE, !.busy = dma]

\* HAL_UART_Transmit_DMA(huart, tx_buf, total_len): the DMA is to fetch the
\* octets of the response from tx_buf one after the other
DmaStart(u, buf, total_len) ==
    [UartStart(u, total_len, TRUE) EXCEPT !.frame = SubSeq(buf, 1, total_len)]

\* HAL_UART_Transmit_DMA returns at once; it starts nothing while a transfer is under way
\* HAL_UART_Transmit is entered
Send_Transmit ==
    /\ InMain
    /\ proc.pc = "transmit"
    /\ IF hmodbus.use_dma_tx
       THEN IF uart.busy
            THEN SendStep(Sending, uart, IdleProc)
            ELSE SendStep(Transmit(Sending, proc.total_len),
                          DmaStart(uart, tx_buf, proc.total_len), IdleProc)
       ELSE SendStep(Transmit(Sending, proc.total_len),
                     UartStart(uart, proc.total_len, FALSE),
                     [proc EXCEPT !.pc = "hal_transmit"])

\* after HAL_UART_Transmit: if (hmodbus->rs485.enabled) { ... } else the call returns
AfterHal(h, p) == IF h.rs485.enabled THEN [p EXCEPT !.pc = "wait_tc"] ELSE IdleProc

\* HAL_UART_Transmit returns HAL_OK: every octet is out
Hal_TransmitDone ==
    /\ InMain
    /\ proc.pc = "hal_transmit"
    /\ uart.tc
    /\ SendStep(Sending, uart, AfterHal(hmodbus, proc))

\* HAL_UART_Transmit returns HAL_TIMEOUT (the value is not looked at): the octet
\* in the transmitter is still to go, the rest of the frame is given up
Hal_TransmitTimeout ==
    /\ InMain
    /\ proc.pc = "hal_transmit"
    /\ ~uart.tc
    /\ SendStep(Sending, [uart EXCEPT !.tx_left = 1], AfterHal(hmodbus, proc))

\* while (__HAL_UART_GET_FLAG(huart, UART_FLAG_TC) == RESET); is left when TC is set
Send_WaitTC ==
    /\ InMain
    /\ proc.pc = "wait_tc"
    /\ uart.tc
    /\ SendStep(Sending, uart, [proc EXCEPT !.pc = "set_rx"])

\* Modbus_RS485_SetRxMode(hmodbus); and the call returns
Send_SetRxMode ==
    /\ InMain
    /\ proc.pc = "set_rx"
    /\ SendStep(RS485_SetRxMode(hmodbus, Sending),
                UartDrive(uart, RS485_SetRxMode(hmodbus, Sending)),
                IdleProc)

\* the transmitter shifts one octet out; TC is set after the last one
Uart_ShiftOut ==
    /\ uart.tx_left > 0
    /\ SendStep(Sending, [uart EXCEPT !.tx_left = @ - 1, !.tc = (uart.tx_left = 1)], proc)

\* HAL_UART_TxCpltCallback: the DMA has moved the last octet to the transmitter,
\* which may still be shifting it out; Modbus_TxCallback is entered
TxCallback_Enter ==
    /\ InMain
    /\ uart.busy
    /\ uart.tx_left <= 1
    /\ SendStep(Sending, [uart EXCEPT !.busy = FALSE, !.frame = <<>>],
                [proc EXCEPT !.tx_cb = IF hmodbus.use_dma_tx /\ hmodbus.rs485.enabled
                                       THEN "wait_tc" ELSE "idle"])

\* the loop on TC in Modbus_TxCallback is left when TC is set
TxCallback_WaitTC ==
    /\ proc.tx_cb = "wait_tc"
    /\ uart.tc
    /\ SendStep(Sending, uart, [proc EXCEPT !.tx_cb = "set_rx"])

\* Modbus_RS485_SetRxMode(hmodbus); and the callback returns
TxCallback_SetRxMode ==
    /\ proc.tx_cb = "set_rx"
    /\ SendStep(RS485_SetRxMode(hmodbus, Sending),
                UartDrive(uart, RS485_SetRxMode(hmodbus, Sending)),
                [proc EXCEPT !.tx_cb = "idle"])

(***************************************************************************)
(* A second instance, hModbus2, bound to the same register storage.        *)
(***************************************************************************)
\* hModbus2 after Modbus_Init(&hModbus2, &config2) returned true, with its own
\* receive and transmit buffers, on a bus delivering the runs of line2
Instance2(config, line2) ==
    [h |-> InitHandle(config),
     rx_mem |-> [b \in Bufs |-> Zeros(config.rx_buf_size)],
     tx_buf |-> Zeros(config.tx_buf_size),
     armed |-> InitHandle(config).rx_active_buf,
     proc |-> IdleProc,
     obs |-> NoObs,
     hist |-> NoHist,
     line |-> line2]

\* both instances initialised, each on its own bus
InitShared(configs1, configs2, buses) ==
    \E bus \in buses :
        /\ InitOne(configs1, {bus[1]})
        /\ \E config \in configs2 : InitAccepts(config) /\ mb2 = Instance2(config, bus[2])
        /\ legacy = NoLegacy

\* Modbus_RxCallback(&hModbus2, size)
Modbus_RxCallback2(run) ==
    LET size == Min(Len(run), mb2.h.rx_buf_size)
        h == RxCallbackHandle(mb2.h, size)
    IN /\ mb2.armed \in Bufs
       /\ mb2' = [mb2 EXCEPT !.rx_mem[mb2.armed] = StoreRun(@, run, size),
                             !.h = h,
                             !.armed = Rearm(h)]
       /\ UNCHANGED <<hmodbus, rx_mem, tx_buf, g_coils, g_discrete_inputs, g_holding_regs,
                      g_input_regs, armed, proc, line, obs, hist, shadow, uart, init_call, legacy>>

\* what a Modbus_Process(&hModbus2) call reads and writes: its own handle and
\* buffers, and the register storage of the first instance
Machine2 ==
    [h |-> mb2.h, p |-> mb2.proc, rx_mem |-> mb2.rx_mem, tx_buf |-> mb2.tx_buf,
     coils |-> g_coils, holding_regs |-> g_holding_regs, obs |-> mb2.obs,
     hist |-> mb2.hist, shadow |-> shadow]

\* the writes of the second instance kept in a copy of its own
Commit2_Private(st) ==
    /\ mb2' = [mb2 EXCEPT !.h = st.h, !.proc = st.p, !.tx_buf = st.tx_buf,
                          !.obs = st.obs, !.hist = st.hist]
    /\ shadow' = st.shadow
    /\ UNCHANGED <<hmodbus, rx_mem, tx_buf, g_coils, g_holding_regs, g_discrete_inputs,
                   g_input_regs, armed, proc, line, obs, hist, uart, init_call, legacy>>

\* write the state of a call of the second instance back to the variables
Commit2(st) ==
    /\ mb2' = [mb2 EXCEPT !.h = st.h, !.proc = st.p, !.tx_buf = st.tx_buf,
                          !.obs = st.obs, !.hist = st.hist]
    /\ g_coils' = st.coils
    /\ g_holding_regs' = st.holding_regs
    /\ shadow' = st.shadow
    /\ UNCHANGED <<hmodbus, rx_mem, tx_buf, g_discrete_inputs, g_input_regs, armed, proc,
                   line, obs, hist, uart, init_call, legacy>>

\* Modbus_Process(&hModbus2) run from its entry to its return
Modbus_Process2 ==
    /\ mb2.proc.pc = "idle"
    /\ \E env \in Envs(mb2.h) : Commit2(FromReady(TestReady(Machine2), env))

(***************************************************************************)
(* The coil stores of Modbus_Process(&hModbus1) as the processor executes  *)
(* them: the octet is loaded, changed and stored back.  A call for the     *)
(* second instance in a preempting context runs between any two steps.     *)
(***************************************************************************)
\* the coil stores of an accepted 0x05 / 0x0F request, in the order of the code
CoilStores(rx) ==
    LET func_code == RxAt(rx, 1)
        start_addr == Word(RxAt(rx, 2), RxAt(rx, 3))
        val == Word(RxAt(rx, 4), RxAt(rx, 5))
    IN IF func_code = MB_FUNC_WRITE_SINGLE_COIL
       THEN IF val = 65280 THEN <<[addr |-> start_addr, on |-> TRUE]>>
            ELSE IF val = 0 THEN <<[addr |-> start_addr, on |-> FALSE]>>
            ELSE <<>>
       ELSE [k \in 1..val |-> [addr |-> start_addr + k - 1,
                             on |-> BitOf(RxAt(rx, 7 + (k - 1) \div 8), (k - 1) % 8) = 1]]

\* the call r, run to its return, has accepted a request that stores coils
StoresCoils(r, rx) ==
    /\ r.obs.verdict = "valid"
    /\ RxAt(rx, 1) \in {MB_FUNC_WRITE_SINGLE_COIL, MB_FUNC_WRITE_MULTI_COILS}
    /\ Len(r.obs.sent) = 1
    /\ r.obs.sent[1][2] = RxAt(rx, 1)
    /\ CoilStores(rx) # <<>>

\* the call r set back to the point before its first coil store
BeforeStores(r, st) ==
    [r EXCEPT !.p = [IdleProc EXCEPT !.pc = "coil_load", !.rx_buf = st.h.rx_process_buf,
                                     !.rx_len = st.h.rx_len, !.i = 1],
              !.coils = st.coils,
              !.tx_buf = st.tx_buf,
              !.shadow = st.shadow,
              !.hist = st.hist,
              !.obs.sent = <<>>,
              !.obs.de_drives = <<>>]

\* Modbus_Process from its entry to its return, or to its first coil store
Process_ToStores ==
    /\ proc.pc = "idle"
    /\ \E env \in Envs(hmodbus) :
           LET r == FromReady(TestReady(Machine), env)
           IN IF StoresCoils(r, rx_mem[hmodbus.rx_process_buf])
              THEN Commit(BeforeStores(r, Machine))
              ELSE Commit(r)

\* the store the call is at
CoilStore == CoilStores(rx_mem[proc.rx_buf])[proc.i]

\* coils[addr / 8] is read
Coil_Load ==
    /\ proc.pc = "coil_load"
    /\ proc' = [proc EXCEPT !.octet = g_coils[CoilStore.addr \div 8 + 1], !.pc = "coil_store"]
    /\ UNCHANGED <<hmodbus, rx_mem, tx_buf, g_coils, g_discrete_inputs, g_holding_regs,
                   g_input_regs, armed, line, obs, hist, shadow, uart, init_call, mb2, legacy>>

\* the octet read, with the bit of the coil set or cleared, is written to coils[addr / 8]
Coil_Store ==
    /\ proc.pc = "coil_store"
    /\ g_coils' = [g_coils EXCEPT ![CoilStore.addr \div 8 + 1] =
                      StoreCoil([g_coils EXCEPT ![CoilStore.addr \div 8 + 1] = proc.octet],
                                CoilStore.addr, CoilStore.on)[CoilStore.addr \div 8 + 1]]
    /\ proc' = [proc EXCEPT !.i = @ + 1,
                            !.pc = IF proc.i < Len(CoilStores(rx_mem[proc.rx_buf]))
                                   THEN "coil_load" ELSE "coil_ack"]
    /\ UNCHANGED <<hmodbus, rx_mem, tx_buf, g_discrete_inputs, g_holding_regs,
                   g_input_regs, armed, line, obs, hist, shadow, uart, init_call, mb2, legacy>>

\* the call after its stores: the coils are as the stores have left them
Acked(r, coils) == [r EXCEPT !.coils = coils]

\* the acknowledgement is sent and the call returns
Coil_Ack ==
    /\ proc.pc = "coil_ack"
    /\ Commit(Acked(Respond([Machine EXCEPT !.p.pc = "dispatch"], [wr_ok |-> TRUE]), g_coils))

(***************************************************************************)
(* Modbus_Init as a call of the host, on a handle in any state.            *)
(***************************************************************************)
\* the state before the first Modbus_Init call: the handle zeroed, the driver
\* not armed, the DE/RE pin not driven
InitBefore(family) ==
    /\ hmodbus = ZeroHandle
    /\ rx_mem = [b \in Bufs |-> Zeros(RxBufSize)]
    /\ tx_buf = Zeros(TxBufSize)
    /\ g_coils = Zeros((CoilCount + 7) \div 8)
    /\ g_discrete_inputs = [i \in 1..((DiscreteCount + 7) \div 8) |-> IF i = 1 THEN 165 ELSE 2]
    /\ g_holding_regs = Zeros(HoldingRegCount)
    /\ g_input_regs = [i \in 1..InputRegCount |-> IF i = 1 THEN 4660 ELSE 43981]
    /\ armed = "none"
    /\ proc = IdleProc
    /\ line \in family
    /\ obs = NoObs
    /\ hist = NoHist
    /\ shadow = NoShadow
    /\ uart = UartReset
    /\ init_call = NoInitCall
    /\ mb2 = NoInstance
    /\ legacy = NoLegacy

\* bool Modbus_Init(ModbusHandle_t *hmodbus, const Modbus_Config_t *config):
\* the two pointers and the configuration config points to
Modbus_Init(hptr, cptr, config) ==
    LET ok == hptr # "NULL" /\ cptr # "NULL" /\ InitAccepts(config)
    IN /\ proc.pc = "idle"
       /\ init_call.n < MaxInits
       /\ init_call' = [n |-> init_call.n + 1, hmodbus |-> hptr, config |-> cptr,
                        args |-> config, ret |-> ok]
       /\ hmodbus' = IF ok THEN InitHandle(config) ELSE hmodbus
       /\ uart' = IF ok THEN InitUart(hmodbus', uart) ELSE uart
       /\ armed' = IF ok THEN Rearm(hmodbus') ELSE armed
       /\ UNCHANGED <<rx_mem, tx_buf, g_coils, g_discrete_inputs, g_holding_regs, g_input_regs,
                      proc, line, obs, hist, shadow, mb2, legacy>>
(***************************************************************************)
(* The bus: frames as a Modbus master builds them, and damaged frames.     *)
(***************************************************************************)
RECURSIVE Crc16Bits(_, _, _)
\* CRC-16/Modbus taken bit by bit, least significant bit first: the register
\* is shifted right and 0xA001 is folded in when the bit shifted out differs
\* from the data bit (crc >= 0 always holds; the test orders the evaluation)
Crc16Bits(crc, octets, k) ==
    IF crc >= 0 /\ k < 8 * Len(octets)
    THEN LET out == (crc + BitOf(octets[(k \div 8) + 1], k % 8)) % 2
         IN Crc16Bits(IF out = 1 THEN BitXor(crc \div 2, 40961) ELSE crc \div 2, octets, k + 1)
    ELSE crc

Crc16Modbus(octets) == Crc16Bits(65535, octets, 0)

\* a frame as a master sends it: the body followed by its CRC, low octet first
WithCrc(body) ==
    LET crc == Crc16Modbus(body)
    IN body \o <<crc % 256, crc \div 256>>

\* an 8-octet request: address, function, two 16-bit fields, CRC
Req(addr, func, a, b) ==
    WithCrc(<<addr, func, a \div 256, a % 256, b \div 256, b % 256>>)

\* a 0x0F / 0x10 request: start, quantity, byte count, data, CRC
ReqMulti(addr, func, start, quantity, data) ==
    WithCrc(<<addr, func, start \div 256, start % 256, quantity \div 256, quantity % 256,
              Len(data)>> \o data)

\* the frame with bit n of the octet at index i (from 0) inverted
FlipBit(frame, i, n) ==
    [frame EXCEPT ![i + 1] = IF BitOf(@, n) = 1 THEN @ - Pow2(n) ELSE @ + Pow2(n)]

\* a run shorter than the shortest frame
ShortRun == <<1, 3, 0>>

\* requests by function and fields, to be sent to several addresses
MainPdus ==
    { <<MB_FUNC_READ_HOLDING, 0, 1>>, <<MB_FUNC_READ_HOLDING, 0, HoldingRegCount>>,
      <<MB_FUNC_READ_HOLDING, 0, 0>>, <<MB_FUNC_READ_COILS, 0, CoilCount>>,
      <<MB_FUNC_READ_COILS, 8, 5>>, <<MB_FUNC_READ_DISCRETE, 3, 4>>,
      <<MB_FUNC_READ_INPUT, 1, 1>>, <<MB_FUNC_WRITE_SINGLE_COIL, 2, 65280>>,
      <<MB_FUNC_WRITE_SINGLE_REG, 1, 4660>>, <<MB_FUNC_CUSTOM_CONFIG, 0, 2>>,
      <<MB_FUNC_CUSTOM_CONFIG, 1, 3>>, <<MB_FUNC_CUSTOM_CONFIG, 0, 300>>,
      <<7, 0, 1>>, <<131, 0, 1>> }

MainLines ==
    { {Req(1, p[1], p[2], p[3]), Req(255, p[1], p[2], p[3]), Req(2, p[1], p[2], p[3])} :
        p \in MainPdus }
    \cup
    { {ReqMulti(a, MB_FUNC_WRITE_MULTI_COILS, 1, 3, <<5>>),
       ReqMulti(255, MB_FUNC_WRITE_MULTI_REGS, 0, 2, <<18, 52, 86, 120>>)} : a \in {1, 2} }
    \cup
    { {Req(0, MB_FUNC_WRITE_SINGLE_REG, 0, 4660), ShortRun, Req(1, MB_FUNC_READ_HOLDING, 0, 1)} }

\* one request per function code 0x00..0xFF, and requests drawing each exception code
ExLines ==
    { {Req(255, f, 0, 1)} : f \in 0..255 }
    \cup
    { {Req(1, MB_FUNC_READ_HOLDING, 0, 0)}, {Req(1, MB_FUNC_READ_COILS, 8, 5)},
      {Req(1, MB_FUNC_WRITE_SINGLE_REG, 0, 1)}, {Req(1, MB_FUNC_CUSTOM_CONFIG, 0, 300)},
      {Req(1, MB_FUNC_WRITE_MULTI_COILS, CoilCount, 1)} }

\* frames for the CRC check: valid ones of 4, 8 and 13 octets
CrcBases ==
    { WithCrc(<<1, 7>>), Req(1, MB_FUNC_READ_HOLDING, 0, 1),
      Req(255, MB_FUNC_WRITE_SINGLE_REG, 0, 4660),
      ReqMulti(1, MB_FUNC_WRITE_MULTI_REGS, 0, 2, <<18, 52, 86, 120>>) }

\* each valid frame with one bit of one of its two CRC octets inverted
CrcLines ==
    { {f, FlipBit(f, Len(f) - 2 + (k \div 8), k % 8)} : f \in CrcBases, k \in 0..15 }
    \cup
    { {<<1, 3, 0, 0, 0, 1, 0, 0>>, <<255, 3, 0, 0>>} }

RegWrites ==
    { Req(1, MB_FUNC_WRITE_SINGLE_REG, 0, 4660), Req(1, MB_FUNC_WRITE_SINGLE_REG, 1, 65535),
      Req(1, MB_FUNC_WRITE_SINGLE_REG, 1, 1), Req(1, MB_FUNC_WRITE_SINGLE_REG, HoldingRegCount, 7),
      ReqMulti(1, MB_FUNC_WRITE_MULTI_REGS, 0, 2, <<18, 52, 86, 120>>),
      ReqMulti(1, MB_FUNC_WRITE_MULTI_REGS, 1, 1, <<171, 205>>) }

CoilWrites ==
    { Req(1, MB_FUNC_WRITE_SINGLE_COIL, 2, 65280), Req(1, MB_FUNC_WRITE_SINGLE_COIL, 2, 0),
      Req(1, MB_FUNC_WRITE_SINGLE_COIL, 2, 4660), Req(1, MB_FUNC_WRITE_SINGLE_COIL, 9, 65280),
      ReqMulti(1, MB_FUNC_WRITE_MULTI_COILS, 1, 3, <<5>>),
      ReqMulti(1, MB_FUNC_WRITE_MULTI_COILS, 0, CoilCount, <<165, 2>>),
      ReqMulti(1, MB_FUNC_WRITE_MULTI_COILS, 7, 3, <<7>>) }

\* a write, a second write and a read of the same region
RWLines ==
    { {w, Req(1, MB_FUNC_WRITE_SINGLE_REG, 1, 65535),
       Req(1, MB_FUNC_READ_HOLDING, 0, HoldingRegCount)} : w \in RegWrites }
    \cup
    { {w, Req(1, MB_FUNC_WRITE_SINGLE_COIL, 2, 0),
       Req(1, MB_FUNC_READ_COILS, 0, CoilCount)} : w \in CoilWrites }
    \cup
    { {Req(1, MB_FUNC_WRITE_SINGLE_REG, 1, 4660), Req(1, MB_FUNC_READ_HOLDING, 1, 1)},
      {ReqMulti(1, MB_FUNC_WRITE_MULTI_COILS, 7, 3, <<7>>), Req(1, MB_FUNC_READ_COILS, 8, 2)} }

ReadStarts(count) == {0, 1, count - 1, count, 65534, 65535}
ReadQuantities(count, max) == {0, 1, 2, count, count + 1, max, max + 1, 65535}

\* read requests around every boundary of the checks
ReadLines ==
    { {Req(1, MB_FUNC_READ_COILS, s, q)} :
        s \in ReadStarts(CoilCount), q \in ReadQuantities(CoilCount, 2000) }
    \cup
    { {Req(1, MB_FUNC_READ_DISCRETE, s, q)} :
        s \in ReadStarts(DiscreteCount), q \in ReadQuantities(DiscreteCount, 2000) }
    \cup
    { {Req(1, f, s, q)} : f \in {MB_FUNC_READ_HOLDING, MB_FUNC_READ_INPUT},
                          s \in ReadStarts(HoldingRegCount),
                          q \in ReadQuantities(HoldingRegCount, 125) }

\* a 13-octet request: holding registers 0 and 1 are set to 0x1234, 0x5678
SetRegs == ReqMulti(1, MB_FUNC_WRITE_MULTI_REGS, 0, 2, <<18, 52, 86, 120>>)

\* runs that follow each other closely: same-length requests, a frame for
\* another slave, a long frame and a short run
IrqLines ==
    { {Req(1, MB_FUNC_READ_HOLDING, 0, 1), Req(1, MB_FUNC_WRITE_SINGLE_REG, 0, 4660)},
      {Req(1, MB_FUNC_READ_INPUT, 0, 1), Req(2, MB_FUNC_READ_HOLDING, 0, 1)},
      {Req(1, MB_FUNC_READ_COILS, 0, 8), SetRegs},
      {Req(255, MB_FUNC_WRITE_SINGLE_COIL, 1, 65280), ShortRun} }

\* every coil set, every holding register 0xFFFF
SetAllCoils == ReqMulti(1, MB_FUNC_WRITE_MULTI_COILS, 0, CoilCount, <<255, 3>>)
SetAllRegs == ReqMulti(1, MB_FUNC_WRITE_MULTI_REGS, 0, HoldingRegCount, <<255, 255, 255, 255>>)

\* single writes in and out of range, with the values 0xFF00, 0x0000 and others
SingleWrites ==
    { Req(1, MB_FUNC_WRITE_SINGLE_COIL, 9, v) : v \in {65280, 0, 255, 65281} }
    \cup
    { Req(255, MB_FUNC_WRITE_SINGLE_COIL, 0, 0),
      Req(1, MB_FUNC_WRITE_SINGLE_COIL, CoilCount, 65280),
      Req(1, MB_FUNC_WRITE_SINGLE_COIL, 65535, 0),
      Req(1, MB_FUNC_WRITE_SINGLE_REG, 0, 4660),
      Req(255, MB_FUNC_WRITE_SINGLE_REG, 1, 0),
      Req(1, MB_FUNC_WRITE_SINGLE_REG, HoldingRegCount, 4660),
      Req(1, MB_FUNC_WRITE_SINGLE_REG, 65535, 0) }

\* multiple writes in and out of range, of no element, and one shorter than its quantity
MultiWrites ==
    { ReqMulti(1, MB_FUNC_WRITE_MULTI_COILS, 1, 3, <<5>>),
      ReqMulti(255, MB_FUNC_WRITE_MULTI_COILS, 0, CoilCount, <<165, 2>>),
      ReqMulti(1, MB_FUNC_WRITE_MULTI_COILS, 7, 3, <<2>>),
      ReqMulti(1, MB_FUNC_WRITE_MULTI_COILS, 9, 2, <<3>>),
      ReqMulti(1, MB_FUNC_WRITE_MULTI_COILS, 65535, 1, <<1>>),
      ReqMulti(1, MB_FUNC_WRITE_MULTI_COILS, CoilCount, 0, <<>>),
      ReqMulti(1, MB_FUNC_WRITE_MULTI_REGS, 0, 2, <<18, 52, 86, 120>>),
      ReqMulti(255, MB_FUNC_WRITE_MULTI_REGS, 1, 1, <<171, 205>>),
      ReqMulti(1, MB_FUNC_WRITE_MULTI_REGS, 1, 2, <<0, 1, 0, 2>>),
      ReqMulti(1, MB_FUNC_WRITE_MULTI_REGS, 65535, 1, <<0, 1>>),
      ReqMulti(1, MB_FUNC_WRITE_MULTI_REGS, 0, 0, <<>>),
      ReqMulti(1, MB_FUNC_WRITE_MULTI_REGS, 0, 2, <<0, 7>>) }

\* a write over a register file the master has filled before
WrLines ==
    { {IF f[2] \in {MB_FUNC_WRITE_SINGLE_COIL, MB_FUNC_WRITE_MULTI_COILS}
       THEN SetAllCoils ELSE SetAllRegs, f} : f \in SingleWrites \cup MultiWrites }

\* writes of one element and of several, inside an octet and across two, in
\* and out of range
FrameWrites ==
    { Req(1, MB_FUNC_WRITE_SINGLE_COIL, 9, 0),
      Req(1, MB_FUNC_WRITE_SINGLE_COIL, 0, 0),
      Req(1, MB_FUNC_WRITE_SINGLE_COIL, CoilCount, 0),
      ReqMulti(1, MB_FUNC_WRITE_MULTI_COILS, 7, 3, <<2>>),
      ReqMulti(1, MB_FUNC_WRITE_MULTI_COILS, 9, 2, <<0>>),
      Req(1, MB_FUNC_WRITE_SINGLE_REG, 0, 4660),
      Req(1, MB_FUNC_WRITE_SINGLE_REG, HoldingRegCount, 4660),
      ReqMulti(1, MB_FUNC_WRITE_MULTI_REGS, 1, 1, <<171, 205>>),
      ReqMulti(1, MB_FUNC_WRITE_MULTI_REGS, 1, 2, <<0, 1, 0, 2>>) }

\* a write over a register file the master has filled before and a read of
\* the region; reads and configuration requests alone
FrameLines ==
    { IF f[2] \in {MB_FUNC_WRITE_SINGLE_COIL, MB_FUNC_WRITE_MULTI_COILS}
      THEN {SetAllCoils, f, Req(1, MB_FUNC_READ_COILS, 0, CoilCount)}
      ELSE {SetAllRegs, f, Req(1, MB_FUNC_READ_HOLDING, 0, 1)} : f \in FrameWrites }
    \cup
    { {SetAllRegs, Req(1, MB_FUNC_CUSTOM_CONFIG, 1, 3), Req(1, MB_FUNC_CUSTOM_CONFIG, 0, 300)},
      {SetAllCoils, Req(1, MB_FUNC_READ_DISCRETE, 0, 9), Req(1, MB_FUNC_READ_INPUT, 0, 1)},
      {SetAllRegs, Req(1, MB_FUNC_READ_HOLDING, 1, 2), Req(1, 7, 0, 1)} }

\* frames with a valid CRC that end before the fields of their function: a
\* 4-octet 0x03, a 5-octet 0x05, a 6-octet 0x06 and 0x64, a 0x10 and a 0x0F
\* with fewer data octets than the quantity takes; each beside a full request
ShortLines ==
    { {Req(1, MB_FUNC_READ_HOLDING, 0, 1), WithCrc(<<1, MB_FUNC_READ_HOLDING>>)},
      {Req(1, MB_FUNC_READ_HOLDING, 0, 2), WithCrc(<<1, MB_FUNC_WRITE_SINGLE_REG, 0, 0>>)},
      {SetAllRegs, ReqMulti(1, MB_FUNC_WRITE_MULTI_REGS, 0, 2, <<18, 52>>)},
      {Req(1, MB_FUNC_READ_COILS, 0, CoilCount),
       ReqMulti(1, MB_FUNC_WRITE_MULTI_COILS, 0, CoilCount, <<255>>)},
      {WithCrc(<<1, MB_FUNC_WRITE_SINGLE_COIL, 0>>), WithCrc(<<1, MB_FUNC_CUSTOM_CONFIG, 0, 0>>)} }

\* config1 with the baud rate left at 0
ConfigZeroBaud == [ConfigFull EXCEPT !.baud_rate = 0]

\* requests answered on the blocking path, and 0x64 requests for the baud rate
BaudLines ==
    { {Req(1, MB_FUNC_READ_HOLDING, 0, 1), Req(1, MB_FUNC_CUSTOM_CONFIG, 1, 3)},
      {Req(1, MB_FUNC_WRITE_SINGLE_REG, 0, 4660), Req(1, MB_FUNC_CUSTOM_CONFIG, 1, 0)},
      {Req(2, MB_FUNC_READ_HOLDING, 0, 1), Req(255, MB_FUNC_READ_COILS, 0, 0)} }

\* a request whose echo leaves 0xFF octets where a read response has its data
DirtyTx == Req(1, MB_FUNC_WRITE_SINGLE_REG, 1, 65535)

\* start and quantity of accepted bit reads: within an octet, across octets,
\* with and without padding bits, up to the end of the region
BitReads(count) ==
    { <<0, 1>>, <<0, 8>>, <<0, 9>>, <<3, 7>>, <<count - 2, 2>>, <<count - 1, 1>> }

\* bit reads after requests that left other octets in the transmit buffer
BitLines ==
    { {DirtyTx, Req(1, MB_FUNC_READ_DISCRETE, r[1], r[2])} :
        r \in BitReads(DiscreteCount) \cup {<<1, 25>>, <<0, DiscreteCount>>} }
    \cup
    { {ReqMulti(1, MB_FUNC_WRITE_MULTI_COILS, 0, CoilCount, <<165, 2>>), DirtyTx,
       Req(1, MB_FUNC_READ_COILS, r[1], r[2])} : r \in {<<0, 9>>, <<3, 7>>, <<CoilCount - 2, 2>>} }

\* start and quantity of accepted word reads
WordReads(count) == { <<0, 1>>, <<count - 1, 1>>, <<0, count>> }

\* word reads of the input registers, and of holding registers written before
WordLines ==
    { {DirtyTx, Req(a, MB_FUNC_READ_INPUT, r[1], r[2])} :
        a \in {1, 255}, r \in WordReads(InputRegCount) }
    \cup
    { {ReqMulti(1, MB_FUNC_WRITE_MULTI_REGS, 0, 2, <<18, 52, 86, 120>>),
       Req(1, MB_FUNC_READ_HOLDING, r[1], r[2])} : r \in WordReads(HoldingRegCount) }

\* param_addr and param_val of 0x64 requests: slave address and baud rate
\* index at and past their limits, and a parameter the host does not know
CfgParams ==
    { <<0, 2>>, <<0, 0>>, <<0, 247>>, <<0, 248>>, <<0, 300>>,
      <<1, 0>>, <<1, 1>>, <<1, 8>>, <<1, 9>>, <<2, 5>>, <<256, 2>> }

\* 0x64 requests of 8 octets and of other lengths, and a write request
CfgLines ==
    { {Req(a, MB_FUNC_CUSTOM_CONFIG, p[1], p[2])} : a \in {1, 255}, p \in CfgParams }
    \cup
    { {WithCrc(<<1, MB_FUNC_CUSTOM_CONFIG>>), Req(1, MB_FUNC_CUSTOM_CONFIG, 0, 2)},
      {WithCrc(<<255, MB_FUNC_CUSTOM_CONFIG, 0, 1, 0, 3, 0>>)},
      {WithCrc(<<1, MB_FUNC_CUSTOM_CONFIG, 0, 0, 2>>)},
      {Req(1, MB_FUNC_WRITE_SINGLE_REG, 0, 4660), Req(1, MB_FUNC_CUSTOM_CONFIG, 2, 5)},
      {ReqMulti(255, MB_FUNC_WRITE_MULTI_COILS, 1, 3, <<5>>),
       Req(255, MB_FUNC_CUSTOM_CONFIG, 0, 3)},
      {Req(1, MB_FUNC_WRITE_SINGLE_COIL, 2, 65280), Req(1, MB_FUNC_CUSTOM_CONFIG, 1, 9)},
      {ReqMulti(1, MB_FUNC_WRITE_MULTI_REGS, 1, 1, <<171, 205>>),
       Req(1, MB_FUNC_CUSTOM_CONFIG, 0, 300)} }

\* one request per function code 0x00..0xFF, sent to the instance's address
FuncLines == { {Req(1, f, 0, 1)} : f \in 0..255 }

\* runs the first three steps reject: short ones, frames for the broadcast
\* address 0 and for other slaves, frames with a damaged octet
RejectedRuns ==
    { ShortRun, <<1>>, <<255, 6, 0>>,
      Req(0, MB_FUNC_WRITE_SINGLE_REG, 1, 7),
      ReqMulti(0, MB_FUNC_WRITE_MULTI_COILS, 0, 3, <<7>>),
      Req(0, MB_FUNC_CUSTOM_CONFIG, 0, 2),
      Req(2, MB_FUNC_WRITE_SINGLE_REG, 1, 7),
      Req(247, MB_FUNC_READ_HOLDING, 0, 1),
      FlipBit(Req(1, MB_FUNC_WRITE_SINGLE_REG, 1, 7), 6, 0),
      FlipBit(Req(255, MB_FUNC_WRITE_SINGLE_COIL, 1, 65280), 7, 7),
      FlipBit(Req(1, MB_FUNC_CUSTOM_CONFIG, 0, 2), 5, 1),
      <<1, 6, 0, 1, 0, 7, 0, 0>> }

\* a rejected run after a write that was answered
DropLines == { {Req(1, MB_FUNC_WRITE_SINGLE_REG, 0, 4660), r} : r \in RejectedRuns }

\* the values a 0x64 request can carry for the slave address: in range, at
\* and past the limits, and values whose low octet alone is 0x00, 0xF7 or 0xFF
AddrParams == {0, 1, 3, 247, 248, 255, 256, 503, 65535}

\* a 0x64 request for the slave address sent to 0xFF, then a read sent to 0xFF
AddrLines ==
    { {Req(255, MB_FUNC_CUSTOM_CONFIG, 0, v), Req(255, MB_FUNC_READ_HOLDING, 0, 1)} :
        v \in AddrParams }

\* arguments of Modbus_SetSlaveAddr: in range, at and past the limits
AddrArgs == {0, 1, 2, 128, 247, 248, 254, 255}

\* the request 01 03 00 00 00 0A and its CRC 0xCDC5, written out
CrcVector == <<1, 3, 0, 0, 0, 10>>
CrcVectorFrame == CrcVector \o <<197, 205>>

\* for every octet value v a frame for this instance with v as function code
\* and in its fields; runs of other octets; the test vector with its CRC
\* octets in both orders
CrcEqLines ==
    { {WithCrc(<<1, v, (v * 3) % 256, 255 - v>>)} : v \in 0..255 }
    \cup
    { {<<v, 255 - v, (v * 7 + 1) % 256, 128, v>>} : v \in {0, 1, 85, 170, 254, 255} }
    \cup
    { {CrcVectorFrame, CrcVector \o <<205, 197>>},
      {ReqMulti(255, MB_FUNC_WRITE_MULTI_REGS, 0, 2, <<255, 0, 128, 127>>)} }

\* RS-485 with the DE/RE pin active low, and enabled without a pin
ConfigActiveLow ==
    [ConfigSmall EXCEPT !.rs485 = [enabled |-> TRUE, de_port |-> "GPIOB", de_polarity |-> FALSE]]
ConfigNoPin ==
    [ConfigSmall EXCEPT !.rs485 = [enabled |-> TRUE, de_port |-> "NULL", de_polarity |-> TRUE]]

\* configurations Modbus_Init accepts: the limits of the address and of the
\* buffer sizes, RS-485 enabled and not
GoodConfigs ==
    { ConfigFull, ConfigSmall, ConfigActiveLow, ConfigNoPin,
      [ConfigSmall EXCEPT !.slave_addr = 247],
      [ConfigFull EXCEPT !.rx_buf_size = 8] }

\* configurations with one defect each
BadConfigs ==
    { [ConfigFull EXCEPT !.huart = "NULL"],
      [ConfigFull EXCEPT !.rx_buf_a = "NULL"],
      [ConfigFull EXCEPT !.rx_buf_b = "NULL"],
      [ConfigFull EXCEPT !.tx_buf = "NULL"],
      [ConfigFull EXCEPT !.rx_buf_size = 7],
      [ConfigFull EXCEPT !.tx_buf_size = 7],
      [ConfigFull EXCEPT !.slave_addr = 0],
      [ConfigFull EXCEPT !.slave_addr = 248],
      [ConfigActiveLow EXCEPT !.rx_buf_size = 0] }

\* the arguments of Modbus_Init: handle pointer, configuration pointer and
\* the configuration pointed to
InitArgs ==
    { <<"&hModbus1", "&config1", c>> : c \in GoodConfigs \cup BadConfigs }
    \cup
    { <<"NULL", "&config1", ConfigFull>>, <<"&hModbus1", "NULL", ConfigFull>> }

\* a write and a 0x64 request that changes the address
InitLines ==
    { {Req(1, MB_FUNC_WRITE_SINGLE_REG, 0, 4660)}, {Req(255, MB_FUNC_CUSTOM_CONFIG, 0, 2)} }

(***************************************************************************)
(* Specifications.                                                         *)
(***************************************************************************)
\* use_dma_tx = true with RS-485 on, active high and active low, and without RS-485
ConfigDma == [ConfigFull EXCEPT !.use_dma_tx = TRUE]
ConfigDmaActiveLow == [ConfigActiveLow EXCEPT !.use_dma_tx = TRUE]
ConfigDmaNo485 == [ConfigSmall EXCEPT !.use_dma_tx = TRUE]

\* the blocking and the DMA path, with the DE/RE pin at either polarity, absent and unused
TxConfigs == {ConfigFull, ConfigActiveLow, ConfigNoPin, ConfigSmall,
              ConfigDma, ConfigDmaActiveLow, ConfigDmaNo485}

\* two requests answered with frames of different lengths, one of them an
\* exception; a request answered and one for another station
TxLines ==
    { {Req(1, MB_FUNC_READ_HOLDING, 0, 1), Req(1, MB_FUNC_WRITE_SINGLE_REG, 0, 4660)},
      {Req(1, MB_FUNC_READ_COILS, 0, 1), Req(1, MB_FUNC_READ_HOLDING, 0, 0)},
      {Req(255, MB_FUNC_READ_INPUT, 0, 1), Req(2, MB_FUNC_READ_INPUT, 0, 1)} }

\* config2 of Modbus_AppInit: its own address and DE/RE pin, no write callback,
\* the data map of config1
Config2 ==
    [Config(2, TxBufSize, FullMap, TRUE, "CustomConfigCallback", "NULL")
        EXCEPT !.huart = "huart2",
               !.rs485 = [enabled |-> TRUE, de_port |-> "GPIOB", de_polarity |-> TRUE]]

\* the runs on the two buses: each master writes elements the other one writes
\* too, or their neighbours, and reads the whole region
SharedBuses ==
    { <<{Req(1, MB_FUNC_WRITE_SINGLE_REG, 1, 4660),
         Req(1, MB_FUNC_READ_HOLDING, 0, HoldingRegCount)},
        {ReqMulti(2, MB_FUNC_WRITE_MULTI_REGS, 0, 2, <<18, 52, 86, 120>>),
         Req(2, MB_FUNC_READ_HOLDING, 1, 1)}>>,
      <<{ReqMulti(1, MB_FUNC_WRITE_MULTI_COILS, 1, 3, <<5>>),
         Req(1, MB_FUNC_READ_COILS, 0, CoilCount)},
        {Req(2, MB_FUNC_WRITE_SINGLE_COIL, 2, 0),
         Req(2, MB_FUNC_READ_COILS, 0, CoilCount)}>> }

\* each master writes coils of octet 0 that the other one does not write
RaceBuses ==
    { <<{Req(1, MB_FUNC_WRITE_SINGLE_COIL, 0, 65280),
         ReqMulti(1, MB_FUNC_WRITE_MULTI_COILS, 4, 2, <<3>>)},
        {Req(2, MB_FUNC_WRITE_SINGLE_COIL, 1, 65280)}>>,
      <<{ReqMulti(1, MB_FUNC_WRITE_MULTI_COILS, 0, 2, <<1>>)},
        {ReqMulti(2, MB_FUNC_WRITE_MULTI_COILS, 2, 2, <<3>>),
         Req(2, MB_FUNC_READ_COILS, 0, 8)}>> }

\* the instance of the end-to-end scenarios: address 0x01, 8 holding registers
ScenarioMap == [FullMap EXCEPT !.holding_reg_count = 8]
ScenarioConfigs ==
    { Config(1, TxBufSize, ScenarioMap, TRUE, "CustomConfigCallback", "NULL"),
      Config(1, 8, ScenarioMap, FALSE, "NULL", "WriteCallback") }

\* the frames of the scenarios as the document prints them, octet by octet
Scenario2WritePrinted == <<1, 6, 0, 5, 18, 52, 154, 212>>
Scenario2ReadPrinted == <<1, 3, 0, 5, 0, 1, 149, 201>>
Scenario4ReadPrinted == <<1, 3, 0, 7, 0, 2, 117, 203>>

\* the same requests closed by the CRC of their first six octets
Scenario2Write == <<1, 6, 0, 5, 18, 52, 148, 188>>
Scenario2Read == <<1, 3, 0, 5, 0, 1, 148, 11>>
Scenario4Read == <<1, 3, 0, 7, 0, 2, 117, 202>>

\* the responses of the scenarios
Scenario2Response == <<1, 3, 2, 18, 52, 181, 51>>
Scenario4Response == <<1, 131, 2, 192, 241>>

\* scenario 2 and scenario 4, as printed and with the CRC of the request; reads
\* of three and of all eight registers
ScenarioLines ==
    { {Scenario2Write, Scenario2Read, Scenario4Read},
      {Scenario2WritePrinted, Scenario2ReadPrinted, Scenario4ReadPrinted},
      {Scenario2Write, Scenario4Read, Req(1, MB_FUNC_WRITE_SINGLE_REG, 5, 0)},
      {Scenario2Write, Req(1, MB_FUNC_READ_HOLDING, 5, 3), Req(1, MB_FUNC_READ_HOLDING, 0, 8)} }

Init == InitWith(Configs, MainLines)
InitEx == InitWith(Configs, ExLines)
InitCrc == InitWith(Configs, CrcLines)
InitRW == InitWith({ConfigFull, ConfigSmall}, RWLines)
InitRead == InitWith(Configs, ReadLines)
InitIrq == InitWith({ConfigFull, ConfigSmall}, IrqLines)
InitBits == InitWith({ConfigFull, ConfigSmall}, BitLines)
InitWords == InitWith({ConfigFull, ConfigSmall}, WordLines)
InitCfg == InitWith({ConfigFull, ConfigSmall, ConfigBare}, CfgLines)
InitFunc == InitWith({ConfigFull, ConfigBare, ConfigGuarded}, FuncLines)
InitDrop == InitWith({ConfigFull, ConfigSmall}, DropLines)
InitWr == InitWith({ConfigFull, ConfigSmall, ConfigBare, ConfigGuarded}, WrLines)
InitCrcEq == InitWith({ConfigFull, ConfigSmall}, CrcEqLines)
InitAddr == InitWith({ConfigFull, ConfigSmall}, AddrLines)
InitTx == InitWith(TxConfigs, TxLines)
InitBaud == InitWith({ConfigFull, ConfigSmall, ConfigZeroBaud}, BaudLines)
InitShort == InitWith({ConfigFull, ConfigSmall}, ShortLines)
InitFrame == InitWith({ConfigFull, ConfigSmall}, FrameLines)
InitScenario == InitWith(ScenarioConfigs, ScenarioLines)
InitRace == InitShared({ConfigFull}, {Config2}, RaceBuses)
InitTwo == InitShared({ConfigFull}, {Config2}, SharedBuses)

\* the main loop calls Modbus_Process to completion between interrupts
Next ==
    \/ \E run \in line : Modbus_RxCallback(run)
    \/ Modbus_Process
    \/ \E addr \in {0, 2, 248} : Modbus_SetSlaveAddr(addr)
    \/ Modbus_StartReceive

\* the receive interrupt preempts Modbus_Process between its statements
NextIrq ==
    \/ \E run \in line : Modbus_RxCallback(run)
    \/ Process_TestReady
    \/ Process_SnapBuf
    \/ Process_SnapLen
    \/ Process_ClearReady
    \/ Process_ClearLen
    \/ Process_CheckFrame
    \/ Process_Respond
    \/ Modbus_StartReceive

\* the host sets the baud rate between Modbus_Process calls
NextBaud ==
    \/ \E run \in line : proc.pc = "idle" /\ Modbus_RxCallback(run)
    \/ Modbus_Process
    \/ Process_DivideFault
    \/ \E baud \in {0, 19200, 115200} : Modbus_SetBaudRate(baud)

\* the main loop calls Modbus_Process and leaves the configuration alone
NextBus ==
    \/ \E run \in line : Modbus_RxCallback(run)
    \/ Modbus_Process
    \/ Modbus_StartReceive

\* the host calls Modbus_Init, before and between Modbus_Process calls
NextInit ==
    \/ \E a \in InitArgs : Modbus_Init(a[1], a[2], a[3])
    \/ \E run \in line : Modbus_RxCallback(run)
    \/ Modbus_Process
    \/ Modbus_StartReceive

\* the host sets the slave address between Modbus_Process calls
NextAddr ==
    \/ \E run \in line : Modbus_RxCallback(run)
    \/ Modbus_Process
    \/ \E addr \in AddrArgs : Modbus_SetSlaveAddr(addr)
    \/ Modbus_StartReceive

\* the main loop calls Modbus_Process, whose transmission runs statement by
\* statement beside the transmitter; the receive and the transmit-complete
\* interrupt preempt it
NextTx ==
    \/ \E run \in line : InMain /\ Modbus_RxCallback(run)
    \/ Process_Build
    \/ Send_SetTxMode
    \/ Send_Transmit
    \/ Hal_TransmitDone
    \/ Hal_TransmitTimeout
    \/ Send_WaitTC
    \/ Send_SetRxMode
    \/ Uart_ShiftOut
    \/ TxCallback_Enter
    \/ TxCallback_WaitTC
    \/ TxCallback_SetRxMode

\* the statements of the processor in a Modbus_Process call that is sending and
\* in Modbus_TxCallback: the processor goes on executing them, and
\* HAL_UART_Transmit returns at the latest when its timeout expires
CpuStep ==
    \/ Send_SetTxMode
    \/ Send_Transmit
    \/ Hal_TransmitDone
    \/ Hal_TransmitTimeout
    \/ Send_WaitTC
    \/ Send_SetRxMode
    \/ TxCallback_WaitTC
    \/ TxCallback_SetRxMode

\* the main loop calls Modbus_Process for one instance after the other, each
\* call to completion; each master sends a request when the one before it has
\* been taken up
NextTwo ==
    \/ \E run \in line : hmodbus.rx_ready = 0 /\ Modbus_RxCallback(run)
    \/ \E run \in mb2.line : mb2.h.rx_ready = 0 /\ Modbus_RxCallback2(run)
    \/ Modbus_Process
    \/ Modbus_Process2

\* Modbus_Process(&hModbus2) is called in a context that preempts the main
\* loop, in which Modbus_Process(&hModbus1) executes its coil stores; no run
\* of the first bus ends during a call
NextRace ==
    \/ \E run \in line : proc.pc = "idle" /\ hmodbus.rx_ready = 0 /\ Modbus_RxCallback(run)
    \/ \E run \in mb2.line : mb2.h.rx_ready = 0 /\ Modbus_RxCallback2(run)
    \/ Process_ToStores
    \/ Coil_Load
    \/ Coil_Store
    \/ Coil_Ack
    \/ Modbus_Process2

Spec == Init /\ [][Next]_vars
SpecEx == InitEx /\ [][Next]_vars
SpecCrc == InitCrc /\ [][Next]_vars
SpecRW == InitRW /\ [][Next]_vars
SpecRead == InitRead /\ [][Next]_vars
SpecIrq == InitIrq /\ [][NextIrq]_vars
SpecBits == InitBits /\ [][Next]_vars
SpecWords == InitWords /\ [][Next]_vars
SpecCfg == InitCfg /\ [][Next]_vars
SpecFunc == InitFunc /\ [][Next]_vars
SpecDrop == InitDrop /\ [][Next]_vars
SpecWr == InitWr /\ [][Next]_vars
SpecAddr == InitAddr /\ [][NextAddr]_vars
SpecCrcEq == InitCrcEq /\ [][NextBus]_vars
SpecInit == InitBefore(InitLines) /\ [][NextInit]_vars
SpecTx == InitTx /\ [][NextTx]_vars
\* the processor is never halted; the transmitter is not required to make progress
SpecTxFair == InitTx /\ [][NextTx]_vars /\ WF_vars(CpuStep)
SpecTwo == InitTwo /\ [][NextTwo]_vars
SpecRace == InitRace /\ [][NextRace]_vars
SpecScenario == InitScenario /\ [][NextBus]_vars
SpecFrame == InitFrame /\ [][NextBus]_vars
SpecShort == InitShort /\ [][NextBus]_vars
SpecBaud == InitBaud /\ [][NextBaud]_vars

(***************************************************************************)
(* The single-instance variant (src/modbus_slave.c): one global hmodbus,   *)
(* one receive buffer, the register arrays of modbus_config.h, blocking    *)
(* transmission, the configuration kept in Flash.                          *)
(***************************************************************************)
DEFAULT_SLAVE_ADDR == 1
DEFAULT_BAUD_RATE == 9600
MB_COIL_COUNT == 8
MB_DISCRETE_COUNT == 8
MB_HOLDING_REG_COUNT == 8
MB_INPUT_REG_COUNT == 8
MB_RX_BUF_SIZE == 256
MB_TX_BUF_SIZE == 256

\* the Flash page at MODBUS_FLASH_ADDR, erased: no magic key, every octet 0xFF
\* (the baud rate word 0xFFFFFFFF is written -1, its value as a 32-bit integer)
FlashErased == [magic |-> FALSE, slave_addr |-> 255, baud_rate |-> -1]

\* Flash_LoadConfig(): the stored configuration when the magic key is there,
\* the defaults otherwise
Flash_LoadConfig(flash) ==
    IF flash.magic THEN [slave_addr |-> flash.slave_addr, baud_rate |-> flash.baud_rate]
    ELSE [slave_addr |-> DEFAULT_SLAVE_ADDR, baud_rate |-> DEFAULT_BAUD_RATE]

\* Flash_SaveConfig(addr, baud): the page contents it can leave. The erase can
\* fail (page untouched) and so can the programming of each word in turn: the
\* magic key, the word of slave_addr, the word of baud_rate
Flash_SaveConfig(flash, addr, baud) ==
    { flash,
      FlashErased,
      [FlashErased EXCEPT !.magic = TRUE],
      [FlashErased EXCEPT !.magic = TRUE, !.slave_addr = addr],
      [magic |-> TRUE, slave_addr |-> addr, baud_rate |-> baud] }

\* Modbus_Init() on a started system: the arrays zero-initialised, the
\* configuration loaded from Flash, reception started; line and sent are the
\* bus side, which a reset of the slave leaves as it is
Legacy_Init(flash, runs, sent) ==
    [config |-> Flash_LoadConfig(flash),
     flash |-> flash,
     rx_buf |-> Zeros(MB_RX_BUF_SIZE),
     rx_len |-> 0,
     tx_buf |-> Zeros(MB_TX_BUF_SIZE),
     mb_coils |-> Zeros(MB_COIL_COUNT \div 8 + 1),
     mb_discrete_inputs |-> Zeros(MB_DISCRETE_COUNT \div 8 + 1),
     mb_holding_regs |-> Zeros(MB_HOLDING_REG_COUNT),
     mb_input_regs |-> Zeros(MB_INPUT_REG_COUNT),
     receiving |-> TRUE,
     line |-> runs,
     sent |-> sent]

\* static uint16_t CRC16(uint8_t *buffer, uint16_t buffer_length)
CRC16(buffer, buffer_length) == CrcShiftLoop(65535, buffer, 0, buffer_length)

\* Modbus_SendResponse(len): the CRC appended low octet first and len + 2
\* octets of tx_buf transmitted; the frame is recorded with the request it
\* answers and the address configured when it left
Legacy_SendResponse(L, len) ==
    LET crc == CRC16(L.tx_buf, len)
        tx == [L.tx_buf EXCEPT ![len + 1] = LowByte(crc), ![len + 2] = LowByte(crc \div 256)]
    IN [L EXCEPT !.tx_buf = tx,
                 !.sent = Append(@, [request |-> SubSeq(L.rx_buf, 1, L.rx_len),
                                     slave_addr |-> L.config.slave_addr,
                                     frame |-> SubSeq(tx, 1, len + 2)])]

\* Modbus_SendException(func_code, exception_code)
Legacy_SendException(L, func_code, exception_code) ==
    Legacy_SendResponse([L EXCEPT !.tx_buf[1] = L.config.slave_addr,
                                  !.tx_buf[2] = ExceptionFunc(func_code),
                                  !.tx_buf[3] = exception_code], 3)

\* memcpy(&hmodbus.tx_buf[from], &hmodbus.rx_buf[from], n)
Legacy_Echo(L, from, n) ==
    [L EXCEPT !.tx_buf = [k \in 1..MB_TX_BUF_SIZE |->
                             IF k > from /\ k <= from + n THEN L.rx_buf[k] ELSE @[k]]]

\* octet j of the payload of a bit read: bits 8j .. 8j+7 of the request, those
\* below quantity, taken from src_buf[bit_idx / 8]
Legacy_PackedOctet(src_buf, start_addr, quantity, j) ==
    LET bit(i) == IF 8 * j + i < quantity
                  THEN BitOf(At(src_buf, (start_addr + 8 * j + i) \div 8),
                             (start_addr + 8 * j + i) % 8) * Pow2(i)
                  ELSE 0
    IN bit(0) + bit(1) + bit(2) + bit(3) + bit(4) + bit(5) + bit(6) + bit(7)

\* case MB_FUNC_READ_COILS / MB_FUNC_READ_DISCRETE (the bits read lie inside
\* the array for the requests of the bus modelled here)
Legacy_ReadBits(L, func_code) ==
    LET start_addr == Word(At(L.rx_buf, 2), At(L.rx_buf, 3))
        quantity == Word(At(L.rx_buf, 4), At(L.rx_buf, 5))
        src_buf == IF func_code = MB_FUNC_READ_COILS THEN L.mb_coils ELSE L.mb_discrete_inputs
        byte_count == ((quantity + 7) \div 8) % 256
    IN IF quantity > 2000 THEN Legacy_SendException(L, func_code, 3)
       ELSE Legacy_SendResponse(
                [L EXCEPT !.tx_buf = [k \in 1..MB_TX_BUF_SIZE |->
                    IF k = 3 THEN byte_count
                    ELSE IF k > 3 /\ k <= 3 + byte_count
                         THEN Legacy_PackedOctet(src_buf, start_addr, quantity, k - 4)
                         ELSE @[k]]],
                3 + byte_count)

\* case MB_FUNC_READ_HOLDING / MB_FUNC_READ_INPUT
Legacy_ReadWords(L, func_code) ==
    LET start_addr == Word(At(L.rx_buf, 2), At(L.rx_buf, 3))
        quantity == Word(At(L.rx_buf, 4), At(L.rx_buf, 5))
        src_buf == IF func_code = MB_FUNC_READ_HOLDING THEN L.mb_holding_regs
                   ELSE L.mb_input_regs
        max_count == IF func_code = MB_FUNC_READ_HOLDING THEN MB_HOLDING_REG_COUNT
                     ELSE MB_INPUT_REG_COUNT
    IN IF quantity > 125 THEN Legacy_SendException(L, func_code, 3)
       ELSE IF start_addr + quantity > max_count THEN Legacy_SendException(L, func_code, 2)
       ELSE Legacy_SendResponse(
                [L EXCEPT !.tx_buf = [k \in 1..MB_TX_BUF_SIZE |->
                    IF k = 3 THEN LowByte(quantity * 2)
                    ELSE IF k > 3 /\ k <= 3 + quantity * 2
                         THEN IF k % 2 = 0
                              THEN At(src_buf, start_addr + (k - 4) \div 2) \div 256
                              ELSE LowByte(At(src_buf, start_addr + (k - 5) \div 2))
                         ELSE @[k]]],
                3 + quantity * 2)

\* case MB_FUNC_WRITE_SINGLE_COIL: the request is echoed from its first octet
Legacy_WriteSingleCoil(L, func_code) ==
    LET start_addr == Word(At(L.rx_buf, 2), At(L.rx_buf, 3))
        val == Word(At(L.rx_buf, 4), At(L.rx_buf, 5))
        coils == IF val = 65280 THEN StoreCoil(L.mb_coils, start_addr, TRUE)
                 ELSE IF val = 0 THEN StoreCoil(L.mb_coils, start_addr, FALSE)
                 ELSE L.mb_coils
    IN IF start_addr >= MB_COIL_COUNT THEN Legacy_SendException(L, func_code, 2)
       ELSE Legacy_SendResponse(Legacy_Echo([L EXCEPT !.mb_coils = coils], 0, 6), 6)

\* case MB_FUNC_WRITE_SINGLE_REG: the request is echoed from its first octet
Legacy_WriteSingleReg(L, func_code) ==
    LET start_addr == Word(At(L.rx_buf, 2), At(L.rx_buf, 3))
        val == Word(At(L.rx_buf, 4), At(L.rx_buf, 5))
    IN IF start_addr >= MB_HOLDING_REG_COUNT THEN Legacy_SendException(L, func_code, 2)
       ELSE Legacy_SendResponse(
                Legacy_Echo([L EXCEPT !.mb_holding_regs[start_addr + 1] = val], 0, 6), 6)

RECURSIVE Legacy_StoreBits(_, _, _, _, _)
\* for (i = 0; i < quantity; i++): coil start_addr + i set or cleared from
\* bit i % 8 of rx_buf[7 + i / 8]
Legacy_StoreBits(coils, rx_buf, start_addr, quantity, i) ==
    IF i < quantity
    THEN Legacy_StoreBits(StoreCoil(coils, start_addr + i,
                                    BitOf(At(rx_buf, 7 + i \div 8), i % 8) = 1),
                          rx_buf, start_addr, quantity, i + 1)
    ELSE coils

\* case MB_FUNC_WRITE_MULTI_COILS: start address and quantity copied behind the header
Legacy_WriteMultiCoils(L, func_code) ==
    LET start_addr == Word(At(L.rx_buf, 2), At(L.rx_buf, 3))
        quantity == Word(At(L.rx_buf, 4), At(L.rx_buf, 5))
    IN IF start_addr + quantity > MB_COIL_COUNT THEN Legacy_SendException(L, func_code, 2)
       ELSE Legacy_SendResponse(
                Legacy_Echo([L EXCEPT !.mb_coils =
                                Legacy_StoreBits(@, L.rx_buf, start_addr, quantity, 0)], 2, 4), 6)

\* case MB_FUNC_WRITE_MULTI_REGS: start address and quantity copied behind the header
Legacy_WriteMultiRegs(L, func_code) ==
    LET start_addr == Word(At(L.rx_buf, 2), At(L.rx_buf, 3))
        quantity == Word(At(L.rx_buf, 4), At(L.rx_buf, 5))
    IN IF start_addr + quantity > MB_HOLDING_REG_COUNT
       THEN Legacy_SendException(L, func_code, 2)
       ELSE Legacy_SendResponse(
                Legacy_Echo([L EXCEPT !.mb_holding_regs = [k \in 1..MB_HOLDING_REG_COUNT |->
                                IF k > start_addr /\ k <= start_addr + quantity
                                THEN Word(At(L.rx_buf, 7 + (k - 1 - start_addr) * 2),
                                          At(L.rx_buf, 8 + (k - 1 - start_addr) * 2))
                                ELSE @[k]]], 2, 4), 6)

\* case MB_FUNC_CUSTOM_CONFIG, a parameter accepted: the request echoed from
\* its first octet, Flash_SaveConfig, NVIC_SystemReset and Modbus_Init of the
\* restarted system; flash is the page as the save left it
Legacy_SaveAndReset(L, flash) ==
    LET acked == Legacy_SendResponse(Legacy_Echo(L, 0, 8), 6)
    IN Legacy_Init(flash, L.line, acked.sent)

\* case MB_FUNC_CUSTOM_CONFIG: the states the call can end in
Legacy_CustomConfig(L, func_code) ==
    LET param_addr == Word(At(L.rx_buf, 2), At(L.rx_buf, 3))
        param_val == Word(At(L.rx_buf, 4), At(L.rx_buf, 5))
    IN IF L.rx_len # 8 THEN {Legacy_SendException(L, func_code, 3)}
       ELSE IF param_addr = 0 THEN
           IF param_val >= 1 /\ param_val <= 247
           THEN { Legacy_SaveAndReset(L, f) :
                    f \in Flash_SaveConfig(L.flash, param_val, L.config.baud_rate) }
           ELSE {Legacy_SendException(L, func_code, 3)}
       ELSE IF param_addr = 1 THEN
           IF param_val >= 1 /\ param_val <= 8
           THEN { Legacy_SaveAndReset(L, f) :
                    f \in Flash_SaveConfig(L.flash, L.config.slave_addr,
                                           BAUD_RATE_TABLE[param_val + 1]) }
           ELSE {Legacy_SendException(L, func_code, 3)}
       ELSE {Legacy_SendException(L, func_code, 2)}

\* the response header and the switch on func_code
Legacy_Dispatch(L) ==
    LET func_code == At(L.rx_buf, 1)
        H == [L EXCEPT !.tx_buf[1] = L.config.slave_addr, !.tx_buf[2] = func_code]
    IN IF func_code \in {MB_FUNC_READ_COILS, MB_FUNC_READ_DISCRETE}
       THEN {Legacy_ReadBits(H, func_code)}
       ELSE IF func_code \in {MB_FUNC_READ_HOLDING, MB_FUNC_READ_INPUT}
       THEN {Legacy_ReadWords(H, func_code)}
       ELSE IF func_code = MB_FUNC_WRITE_SINGLE_COIL THEN {Legacy_WriteSingleCoil(H, func_code)}
       ELSE IF func_code = MB_FUNC_WRITE_SINGLE_REG THEN {Legacy_WriteSingleReg(H, func_code)}
       ELSE IF func_code = MB_FUNC_WRITE_MULTI_COILS THEN {Legacy_WriteMultiCoils(H, func_code)}
       ELSE IF func_code = MB_FUNC_WRITE_MULTI_REGS THEN {Legacy_WriteMultiRegs(H, func_code)}
       ELSE IF func_code = MB_FUNC_CUSTOM_CONFIG THEN Legacy_CustomConfig(H, func_code)
       ELSE {Legacy_SendException(H, func_code, 1)}

\* steps 1 to 3 of Modbus_Process: length, address (the slave's or 0xFF), CRC
Legacy_Validated(L) ==
    /\ L.rx_len >= 4
    /\ At(L.rx_buf, 0) = L.config.slave_addr \/ At(L.rx_buf, 0) = 255
    /\ Word(At(L.rx_buf, L.rx_len - 1), At(L.rx_buf, L.rx_len - 2))
           = CRC16(L.rx_buf, L.rx_len - 2)

\* restart_rx: rx_len cleared and reception started again (after a reset
\* Modbus_Init has done both)
Legacy_RestartRx(L) == [L EXCEPT !.rx_len = 0, !.receiving = TRUE]

\* void Modbus_RxCpltCallback(huart, Size): the driver has filled rx_buf with
\* the run and stopped receiving
Modbus_RxCpltCallback(run) ==
    /\ legacy # NoLegacy
    /\ legacy.receiving
    /\ run \in legacy.line
    /\ legacy' = [legacy EXCEPT !.rx_buf = StoreRun(@, run, Len(run)),
                                !.rx_len = Len(run),
                                !.receiving = FALSE,
                                !.line = @ \ {run}]
    /\ UNCHANGED <<hmodbus, rx_mem, tx_buf, g_coils, g_discrete_inputs, g_holding_regs,
                   g_input_regs, armed, proc, line, obs, hist, shadow, uart, init_call, mb2>>

\* void Modbus_Process(void) of the single-instance variant, with a frame waiting
Legacy_Process ==
    /\ legacy # NoLegacy
    /\ legacy.rx_len # 0
    /\ legacy' \in IF Legacy_Validated(legacy)
                   THEN { Legacy_RestartRx(r) : r \in Legacy_Dispatch(legacy) }
                   ELSE { Legacy_RestartRx(legacy) }
    /\ UNCHANGED <<hmodbus, rx_mem, tx_buf, g_coils, g_discrete_inputs, g_holding_regs,
                   g_input_regs, armed, proc, line, obs, hist, shadow, uart, init_call, mb2>>

\* the requests a master sends to address a
LegacyPdus(a) ==
    { Req(a, MB_FUNC_READ_COILS, 0, 8), Req(a, MB_FUNC_READ_DISCRETE, 0, 8),
      Req(a, MB_FUNC_READ_HOLDING, 0, 2), Req(a, MB_FUNC_READ_INPUT, 7, 1),
      Req(a, MB_FUNC_READ_HOLDING, 7, 2), Req(a, MB_FUNC_READ_INPUT, 0, 126),
      Req(a, MB_FUNC_WRITE_SINGLE_COIL, 3, 65280), Req(a, MB_FUNC_WRITE_SINGLE_COIL, 8, 0),
      Req(a, MB_FUNC_WRITE_SINGLE_REG, 1, 4660),
      ReqMulti(a, MB_FUNC_WRITE_MULTI_COILS, 0, 8, <<165>>),
      ReqMulti(a, MB_FUNC_WRITE_MULTI_REGS, 0, 2, <<18, 52, 86, 120>>),
      Req(a, MB_FUNC_CUSTOM_CONFIG, 0, 17), Req(a, MB_FUNC_CUSTOM_CONFIG, 1, 5),
      Req(a, MB_FUNC_CUSTOM_CONFIG, 0, 0), Req(a, MB_FUNC_CUSTOM_CONFIG, 2, 1),
      Req(a, 7, 0, 0) }

\* a request to 0xFF and one to the default address, in either order; and
\* runs the slave drops
LegacyLines ==
    { {p, q} : p \in LegacyPdus(255), q \in LegacyPdus(DEFAULT_SLAVE_ADDR) }
    \cup { {Req(2, MB_FUNC_READ_HOLDING, 0, 1), <<255, 3, 0>>,
            FlipBit(Req(255, MB_FUNC_READ_HOLDING, 0, 1), 6, 0)} }

\* the slave started, its Flash page erased or holding a saved address
InitLegacy ==
    /\ InitOne({ConfigFull}, {{}})
    /\ mb2 = NoInstance
    /\ \E runs \in LegacyLines, flash \in {FlashErased, [magic |-> TRUE, slave_addr |-> 17,
                                                         baud_rate |-> DEFAULT_BAUD_RATE]} :
           legacy = Legacy_Init(flash, runs, <<>>)

NextLegacy ==
    \/ \E run \in legacy.line : Modbus_RxCpltCallback(run)
    \/ Legacy_Process

SpecLegacy == InitLegacy /\ [][NextLegacy]_vars

(***************************************************************************)
(* The claims, stated on the observation of the last Modbus_Process call:  *)
(* obs.req is the run it checked, obs.sent the frames it transmitted.      *)
(***************************************************************************)
\* the fields of the request, as they stand in the buffer the last call parsed
ReqFunc == obs.snap_bytes[2]
ReqStart == obs.snap_bytes[3] * 256 + obs.snap_bytes[4]
ReqQuantity == obs.snap_bytes[5] * 256 + obs.snap_bytes[6]

\* the run the last call checked passed the length, address and CRC checks
ValidRequest == obs.verdict = "valid"

\* a frame ends with the CRC-16/Modbus of the octets before it, low octet first
EndsWithCrc(frame) ==
    /\ Len(frame) >= 3
    /\ frame[Len(frame) - 1] + 256 * frame[Len(frame)]
         = Crc16Modbus(SubSeq(frame, 1, Len(frame) - 2))

\* C1: a run whose first octet is neither the instance's slave address nor
\* 0xFF draws no response octet, and every response to a validated frame sent
\* to 0xFF starts with the instance's slave address.
C1_AddressFiltering ==
    /\ (Len(obs.req) >= 1 /\ obs.req[1] \notin {obs.slave_addr, 255}) => obs.sent = <<>>
    /\ (ValidRequest /\ obs.req[1] = 255) =>
         \A k \in 1..Len(obs.sent) : obs.sent[k][1] = obs.addr_out

\* a frame sent to 0xFF is answered by the instance whose address was set to 2
C1_Witness ==
    /\ ValidRequest /\ obs.req[1] = 255
    /\ obs.slave_addr = 2
    /\ Len(obs.sent) = 1 /\ obs.sent[1][1] = 2

\* C2: a run of at least 4 octets addressed to the instance (its address or
\* 0xFF) whose last two octets, low octet first, are not the CRC-16/Modbus of
\* the octets before them draws no response octet.
C2_CrcSilentDrop ==
    (/\ Len(obs.req) >= 4
     /\ obs.req[1] \in {obs.slave_addr, 255}
     /\ ~EndsWithCrc(obs.req))
    => obs.sent = <<>>

\* a frame sent to 0xFF with one bit of its high CRC octet inverted was dropped
C2_Witness ==
    /\ obs.verdict = "crc" /\ obs.req[1] = 255
    /\ \E n \in 0..7 : EndsWithCrc(FlipBit(obs.req, Len(obs.req) - 1, n))

\* the exception code the read checks select, 0 when the request is accepted:
\* region absent, then quantity out of range, then start + quantity past the end
ReadTable(absent, quantity, max_quantity, start, count) ==
    IF absent THEN 1
    ELSE IF quantity = 0 \/ quantity > max_quantity THEN 3
    ELSE IF start + quantity > count THEN 2
    ELSE 0

\* the table applied to the request of the last call, by function code
ReadTableOfRequest ==
    LET dm == hmodbus.data_map
    IN CASE ReqFunc = 1 ->
              ReadTable(dm.coils = "NULL" \/ dm.coil_count = 0,
                        ReqQuantity, 2000, ReqStart, dm.coil_count)
         [] ReqFunc = 2 ->
              ReadTable(dm.discrete_inputs = "NULL" \/ dm.discrete_count = 0,
                        ReqQuantity, 2000, ReqStart, dm.discrete_count)
         [] ReqFunc = 3 ->
              ReadTable(dm.holding_regs = "NULL" \/ dm.holding_reg_count = 0,
                        ReqQuantity, 125, ReqStart, dm.holding_reg_count)
         [] ReqFunc = 4 ->
              ReadTable(dm.input_regs = "NULL" \/ dm.input_reg_count = 0,
                        ReqQuantity, 125, ReqStart, dm.input_reg_count)

\* the data octets of the normal response to the read request of the last call
ReadByteCount ==
    IF ReqFunc \in {1, 2} THEN (ReqQuantity + 7) \div 8 ELSE 2 * ReqQuantity

\* C3: for every configuration Modbus_Init accepts, every frame that passes
\* validation (length >= 4, address match, CRC match) makes the same
\* Modbus_Process call transmit exactly one frame; never zero octets.
C3_AlwaysResponds == ValidRequest => Len(obs.sent) = 1

\* a transmitted frame is an exception response to the request of the last call
IsException(frame) == ReqFunc >= 128 \/ frame[2] # ReqFunc

\* C4: every exception response transmitted has exactly 5 octets: the slave
\* address, the request's function code with bit 7 set, a code in 1..4 and the
\* CRC-16/Modbus of these three octets, low octet first; for every function
\* code 0x00..0xFF of the request.
C4_ExceptionShape ==
    \A k \in 1..Len(obs.sent) :
        IsException(obs.sent[k]) =>
            /\ Len(obs.sent[k]) = 5
            /\ obs.sent[k][1] = obs.addr_out
            /\ obs.sent[k][2] = (IF ReqFunc >= 128 THEN ReqFunc ELSE ReqFunc + 128)
            /\ obs.sent[k][3] \in {1, 2, 3, 4}
            /\ EndsWithCrc(obs.sent[k])

\* the request with function code 0x83 drew an exception response
C4_Witness ==
    /\ ValidRequest /\ ReqFunc = 131
    /\ Len(obs.sent) = 1 /\ obs.sent[1][2] = 131 /\ obs.sent[1][3] = 1

\* C5: when exactly one run is handed off after Modbus_Process took its
\* snapshot of the pending pointer and before it returns, the run is stored in
\* the other receive buffer and the buffer being parsed keeps the contents it
\* had at the snapshot.
C5_SecondFrameOtherBuffer ==
    (InCall /\ obs.irqs <= 1) =>
        /\ rx_mem[proc.rx_buf] = obs.snap_bytes
        /\ obs.irqs = 1 => hist.pend_buf # proc.rx_buf

\* one run arrived during a call that is about to answer the frame it validated
C5_Witness ==
    /\ proc.pc = "dispatch" /\ obs.irqs = 1
    /\ hist.pend_buf = OtherBuf(proc.rx_buf)
    /\ rx_mem[hist.pend_buf] # rx_mem[proc.rx_buf]

\* C6: between two Modbus_Process calls, the newest run handed off
\* (no Modbus_RxCallback has followed it) and not snapshotted by a call is
\* still pending: rx_ready is set, rx_len is the byte count the callback
\* recorded and rx_process_buf designates its buffer.
C6_LostOnlyByOverrun ==
    (proc.pc = "idle" /\ hist.pend = "pending") =>
        /\ hmodbus.rx_ready = 1
        /\ hmodbus.rx_len = hist.pend_len
        /\ hmodbus.rx_process_buf = hist.pend_buf

\* C7: the responses answer a subsequence of the received runs in
\* receive order: the run a response answers is newer than the run the
\* previous response answered.
C7_ReceiveOrder ==
    [][(proc.pc = "dispatch" /\ proc'.pc = "idle" /\ obs'.sent # <<>>)
        => (hist.resp_age = 0 \/ hist.age[proc.rx_buf] < hist.resp_age)]_vars

\* C8: rx_active_buf and rx_process_buf designate two distinct buffers, each
\* one of the two configured receive buffers.
C8_ActiveNotPending ==
    /\ hmodbus.rx_active_buf \in Bufs
    /\ hmodbus.rx_process_buf \in Bufs
    /\ hmodbus.rx_active_buf # hmodbus.rx_process_buf

\* two runs were handed off, the second during a call, after a re-arm
C8_Witness ==
    /\ hist.age["A"] = 2 /\ hist.age["B"] = 1
    /\ obs.irqs = 1 /\ proc.pc = "idle"
    /\ hmodbus.rx_active_buf = "A" /\ hmodbus.rx_process_buf = "B"

\* C9: a read response returns, for every element the master has written
\* with a successful write request, the value of the last such write: 0x03
\* returns the holding registers written by 0x06 / 0x10, 0x01 the coils
\* written by 0x05 / 0x0F.
C9_RoundTrip ==
    (ValidRequest /\ Len(obs.sent) = 1) =>
        /\ (ReqFunc = 3 /\ obs.sent[1][2] = 3) =>
              \A i \in 0..(ReqQuantity - 1) :
                  shadow.regs[ReqStart + i] # -1 =>
                      obs.sent[1][4 + 2 * i] * 256 + obs.sent[1][5 + 2 * i]
                          = shadow.regs[ReqStart + i]
        /\ (ReqFunc = 1 /\ obs.sent[1][2] = 1) =>
              \A i \in 0..(ReqQuantity - 1) :
                  shadow.coils[ReqStart + i] # -1 =>
                      (obs.sent[1][4 + (i \div 8)] \div Pow2(i % 8)) % 2
                          = shadow.coils[ReqStart + i]

\* every coil was written by 0x0F, coil 2 cleared again by 0x05, and all read
C9_Witness ==
    /\ ValidRequest /\ ReqFunc = 1 /\ ReqQuantity = CoilCount
    /\ Len(obs.sent) = 1 /\ obs.sent[1][2] = 1
    /\ \A c \in 0..(CoilCount - 1) : shadow.coils[c] # -1
    /\ shadow.coils[0] = 1 /\ shadow.coils[2] = 0 /\ shadow.coils[9] = 1

\* C10: a validated read request (0x01..0x04) is answered by exception 0x01
\* if the region is absent, else 0x03 if the quantity is out of range, else
\* 0x02 if start + quantity (not wrapped to 16 bits) exceeds the region, else
\* by a normal response carrying the function code and the byte count.
C10_ReadDecisionTable ==
    (ValidRequest /\ ReqFunc \in 1..4) =>
        /\ Len(obs.sent) = 1
        /\ IF ReadTableOfRequest # 0
           THEN /\ Len(obs.sent[1]) = 5
                /\ obs.sent[1][2] = ReqFunc + 128
                /\ obs.sent[1][3] = ReadTableOfRequest
           ELSE /\ Len(obs.sent[1]) = 3 + ReadByteCount + 2
                /\ obs.sent[1][2] = ReqFunc
                /\ obs.sent[1][3] = ReadByteCount

\* start 0xFFFF with quantity 2 was rejected with exception 0x02
C10_Witness ==
    /\ ValidRequest /\ ReqFunc = 3 /\ ReqStart = 65535 /\ ReqQuantity = 2
    /\ Len(obs.sent) = 1 /\ obs.sent[1][2] = 131 /\ obs.sent[1][3] = 2

\* a write function code
WriteFuncs == {MB_FUNC_WRITE_SINGLE_COIL, MB_FUNC_WRITE_SINGLE_REG,
               MB_FUNC_WRITE_MULTI_COILS, MB_FUNC_WRITE_MULTI_REGS}

SingleWriteFuncs == {MB_FUNC_WRITE_SINGLE_COIL, MB_FUNC_WRITE_SINGLE_REG}

CoilWriteFuncs == {MB_FUNC_WRITE_SINGLE_COIL, MB_FUNC_WRITE_MULTI_COILS}

\* the region a write request addresses is present, and its size
WriteRegionPresent ==
    IF ReqFunc \in CoilWriteFuncs
    THEN hmodbus.data_map.coils # "NULL" /\ hmodbus.data_map.coil_count # 0
    ELSE hmodbus.data_map.holding_regs # "NULL" /\ hmodbus.data_map.holding_reg_count # 0

WriteRegionCount ==
    IF ReqFunc \in CoilWriteFuncs
    THEN hmodbus.data_map.coil_count ELSE hmodbus.data_map.holding_reg_count

\* the elements a write request names lie inside the region
WriteInRange ==
    IF ReqFunc \in SingleWriteFuncs THEN ReqStart < WriteRegionCount
    ELSE ReqStart + ReqQuantity <= WriteRegionCount

\* the number of elements a write request names
WriteQuantity == IF ReqFunc \in SingleWriteFuncs THEN 1 ELSE ReqQuantity

\* the last call transmitted one frame, the exception response with this code
ExceptionSent(code) ==
    /\ Len(obs.sent) = 1
    /\ Len(obs.sent[1]) = 5
    /\ obs.sent[1][2] = (IF ReqFunc >= 128 THEN ReqFunc ELSE ReqFunc + 128)
    /\ obs.sent[1][3] = code

\* the step is a Modbus_Process call that validated a request with this function code
ProcessedStep(funcs) ==
    /\ hmodbus.rx_ready = 1 /\ hmodbus'.rx_ready = 0
    /\ ValidRequest' /\ ReqFunc' \in funcs

\* the register file is the same before and after the step
RegisterFileUnchanged ==
    UNCHANGED <<g_coils, g_discrete_inputs, g_holding_regs, g_input_regs>>

\* C11: for a validated write request (0x05, 0x06, 0x0F, 0x10), write_cb is
\* called exactly once if it is installed, the region is present and the
\* address range is inside the region, and not at all otherwise (an absent
\* region is answered by 0x01, an out-of-range request by 0x02); the call has
\* the arguments (function code, start address, quantity; 1 for single writes)
\* and sees the register file as it was before the request; if it returns
\* false the response is exception 0x04 and the register file is unchanged.
C11_WriteAuthorization ==
    [][ProcessedStep(WriteFuncs) =>
          /\ Len(obs'.cb_calls) =
                (IF hmodbus.write_cb # "NULL" /\ WriteRegionPresent' /\ WriteInRange'
                 THEN 1 ELSE 0)
          /\ ~WriteRegionPresent' => ExceptionSent(MB_EX_ILLEGAL_FUNCTION)'
          /\ (WriteRegionPresent' /\ ~WriteInRange') => ExceptionSent(MB_EX_ILLEGAL_DATA_ADDRESS)'
          /\ \A k \in 1..Len(obs'.cb_calls) :
                /\ obs'.cb_calls[k].cb = "write_cb"
                /\ obs'.cb_calls[k].args = <<ReqFunc', ReqStart', WriteQuantity'>>
                /\ obs'.cb_calls[k].coils = g_coils
                /\ obs'.cb_calls[k].holding_regs = g_holding_regs
                /\ ~obs'.cb_calls[k].ret =>
                      /\ ExceptionSent(MB_EX_SLAVE_DEVICE_FAILURE)'
                      /\ RegisterFileUnchanged]_vars

\* write_cb rejected a 0x10 request over registers holding 0xFFFF
C11_Witness ==
    /\ ValidRequest /\ ReqFunc = MB_FUNC_WRITE_MULTI_REGS /\ ReqQuantity = 2
    /\ Len(obs.cb_calls) = 1 /\ ~obs.cb_calls[1].ret
    /\ obs.cb_calls[1].args = <<MB_FUNC_WRITE_MULTI_REGS, 0, 2>>
    /\ ExceptionSent(MB_EX_SLAVE_DEVICE_FAILURE)
    /\ g_holding_regs = <<65535, 65535>>

\* the smallest number of octets holding n bits
CeilDiv8(n) == IF n % 8 = 0 THEN n \div 8 ELSE n \div 8 + 1

\* bit a of a packed region, LSB-first within each octet
RegionBit(region, a) == (region[a \div 8 + 1] \div Pow2(a % 8)) % 2

\* the region a bit read addresses
BitRegionOfRequest == IF ReqFunc = MB_FUNC_READ_COILS THEN g_coils ELSE g_discrete_inputs

\* the frame is the normal response to a bit read of quantity bits from start
BitReadResponse(frame, region, start, quantity) ==
    /\ Len(frame) = 3 + CeilDiv8(quantity) + 2
    /\ frame[1] = obs.addr_out
    /\ frame[2] = ReqFunc
    /\ frame[3] = CeilDiv8(quantity)
    /\ \A i \in 0..(quantity - 1) :
          (frame[4 + i \div 8] \div Pow2(i % 8)) % 2 = RegionBit(region, start + i)
    /\ \A i \in quantity..(8 * CeilDiv8(quantity) - 1) :
          (frame[4 + i \div 8] \div Pow2(i % 8)) % 2 = 0
    /\ EndsWithCrc(frame)

\* the last call validated a 0x01 / 0x02 request and its checks accepted it
AcceptedBitRead ==
    ValidRequest /\ ReqFunc \in {MB_FUNC_READ_COILS, MB_FUNC_READ_DISCRETE}
                 /\ ReadTableOfRequest = 0

WordRegionOfRequest ==
    IF ReqFunc = MB_FUNC_READ_HOLDING THEN g_holding_regs ELSE g_input_regs

\* the frame is the normal response to a word read of quantity registers from start
WordReadResponse(frame, regs, start, quantity) ==
    /\ Len(frame) = 5 + 2 * quantity
    /\ frame[1] = obs.addr_out
    /\ frame[2] = ReqFunc
    /\ frame[3] = 2 * quantity
    /\ \A i \in 0..(quantity - 1) :
          /\ frame[4 + 2 * i] = regs[start + i + 1] \div 256
          /\ frame[5 + 2 * i] = regs[start + i + 1] % 256
    /\ EndsWithCrc(frame)

\* the last call validated a 0x03 / 0x04 request and its checks accepted it
AcceptedWordRead ==
    ValidRequest /\ ReqFunc \in {MB_FUNC_READ_HOLDING, MB_FUNC_READ_INPUT}
                 /\ ReadTableOfRequest = 0

WriteAllowed == \A k \in 1..Len(obs.cb_calls) : obs.cb_calls[k].ret

\* the last call validated a write request with this function code, the region
\* is present, the range inside it and write_cb absent or returning true
AcceptedWrite(funcs) ==
    /\ ValidRequest /\ ReqFunc \in funcs
    /\ WriteRegionPresent /\ WriteInRange /\ WriteAllowed

\* octet k (from 0) of the data of a 0x0F / 0x10 request: it follows the byte count
ReqData(k) == obs.snap_bytes[8 + k]

\* the response made of the instance's address and octets 1..5 of the request
EchoOfRequest ==
    WithCrc(<<obs.addr_out, ReqFunc, obs.snap_bytes[3], obs.snap_bytes[4],
              obs.snap_bytes[5], obs.snap_bytes[6]>>)

\* C14: after an accepted 0x0F request (addr, quantity, data), coil addr + i
\* equals bit (i mod 8) of data octet (i div 8) for every i < quantity; after
\* an accepted 0x10 request, holding register addr + i equals the big-endian
\* word at data[2i..2i+1]; the response is [slave_addr][func][addr hi]
\* [addr lo][quantity hi][quantity lo] followed by its CRC.
C14_WriteMultiple ==
    AcceptedWrite({MB_FUNC_WRITE_MULTI_COILS, MB_FUNC_WRITE_MULTI_REGS}) =>
        /\ obs.sent = <<EchoOfRequest>>
        /\ ReqFunc = MB_FUNC_WRITE_MULTI_COILS =>
              \A i \in 0..(ReqQuantity - 1) :
                  RegionBit(g_coils, ReqStart + i)
                      = (ReqData(i \div 8) \div Pow2(i % 8)) % 2
        /\ ReqFunc = MB_FUNC_WRITE_MULTI_REGS =>
              \A i \in 0..(ReqQuantity - 1) :
                  g_holding_regs[ReqStart + i + 1]
                      = ReqData(2 * i) * 256 + ReqData(2 * i + 1)

\* 0x0F wrote the bits 0, 1, 0 to the coils 7, 8, 9, all set before
C14_Witness ==
    /\ AcceptedWrite({MB_FUNC_WRITE_MULTI_COILS})
    /\ ReqStart = 7 /\ ReqQuantity = 3 /\ ReqData(0) = 2
    /\ g_coils = <<127, 1>>
    /\ obs.sent = <<EchoOfRequest>>

\* C15: a validated, in-range, authorized 0x05 request with value 0xFF00
\* sets the coil, with value 0x0000 clears it, and with any other value leaves
\* every coil unchanged; in all three cases the one frame transmitted is the
\* echo of the request's address and value fields behind the instance's slave
\* address and the function code, not an exception.
C15_WriteSingleCoilValue ==
    /\ [](AcceptedWrite({MB_FUNC_WRITE_SINGLE_COIL}) => obs.sent = <<EchoOfRequest>>)
    /\ [][(ProcessedStep({MB_FUNC_WRITE_SINGLE_COIL})
              /\ AcceptedWrite({MB_FUNC_WRITE_SINGLE_COIL})')
          => /\ ReqQuantity' = 65280 => RegionBit(g_coils', ReqStart') = 1
             /\ ReqQuantity' = 0 => RegionBit(g_coils', ReqStart') = 0
             /\ ReqQuantity' \notin {65280, 0} => g_coils' = g_coils]_vars

\* a 0x05 request with value 0x00FF for coil 9 was echoed and left all coils set
C15_Witness ==
    /\ AcceptedWrite({MB_FUNC_WRITE_SINGLE_COIL})
    /\ ReqStart = 9 /\ ReqQuantity = 255
    /\ obs.sent = <<EchoOfRequest>>
    /\ g_coils = <<255, 3>>

\* the last call validated a frame with function code 0x64
CustomConfigRequest == ValidRequest /\ ReqFunc = MB_FUNC_CUSTOM_CONFIG

\* C16: a validated frame with function 0x64 and a length other than 8 draws
\* exception 0x03 without a callback call; else, without custom_config_cb
\* installed, exception 0x01; else the callback is called exactly once with
\* (param_addr, param_val) = the big-endian octets 2..3 and 4..5, and its
\* result decides: true, the echo of these fields behind slave address and
\* function code, with its CRC; false, exception 0x03.  write_cb is not called.
C16_CustomConfigOutcomes ==
    CustomConfigRequest =>
        IF Len(obs.req) # 8
        THEN ExceptionSent(MB_EX_ILLEGAL_DATA_VALUE) /\ obs.cb_calls = <<>>
        ELSE IF hmodbus.custom_config_cb = "NULL"
        THEN ExceptionSent(MB_EX_ILLEGAL_FUNCTION) /\ obs.cb_calls = <<>>
        ELSE /\ Len(obs.cb_calls) = 1
             /\ obs.cb_calls[1].cb = "custom_config_cb"
             /\ obs.cb_calls[1].args = <<ReqStart, ReqQuantity>>
             /\ IF obs.cb_calls[1].ret
                THEN obs.sent = <<EchoOfRequest>>
                ELSE ExceptionSent(MB_EX_ILLEGAL_DATA_VALUE)

\* the callback was called with (0, 300), returned false and 0x03 was sent
C16_Witness ==
    /\ CustomConfigRequest /\ Len(obs.req) = 8
    /\ Len(obs.cb_calls) = 1 /\ ~obs.cb_calls[1].ret
    /\ obs.cb_calls[1].args = <<0, 300>>
    /\ ExceptionSent(MB_EX_ILLEGAL_DATA_VALUE)

\* the last call validated an 8-octet 0x64 request sent to the instance's own
\* address, and custom_config_cb returned true
AcknowledgedConfig ==
    /\ CustomConfigRequest /\ Len(obs.req) = 8
    /\ obs.req[1] = obs.slave_addr
    /\ Len(obs.cb_calls) = 1 /\ obs.cb_calls[1].ret

\* C17: when custom_config_cb returns true for a 0x64 request sent to the
\* instance's own address, the transmitted response is identical to the
\* request in its first six octets and in its CRC, also when the callback
\* changes the slave address by Modbus_SetSlaveAddr before it returns.
C17_AckEchoesRequest == AcknowledgedConfig => obs.sent = <<obs.req>>

\* the request 01 64 00 00 00 02 was acknowledged by a frame that starts with 02
C17_Witness ==
    /\ AcknowledgedConfig
    /\ SubSeq(obs.req, 1, 6) = <<1, 100, 0, 0, 0, 2>>
    /\ Len(obs.sent) = 1
    /\ SubSeq(obs.sent[1], 1, 6) = <<2, 100, 0, 0, 0, 2>>
    /\ EndsWithCrc(obs.sent[1])

\* a host callback called by the last call returned false
Rejected(cb) ==
    \E k \in 1..Len(obs.cb_calls) : obs.cb_calls[k].cb = cb /\ ~obs.cb_calls[k].ret

\* C18: exception 0x04 is the code emitted whenever a host callback rejects
\* a request: when write_cb returns false for a write function and when
\* custom_config_cb returns false for function 0x64.
C18_RejectionIsDeviceFailure ==
    (ValidRequest /\ (Rejected("write_cb") \/ Rejected("custom_config_cb")))
        => ExceptionSent(MB_EX_SLAVE_DEVICE_FAILURE)

\* C18, amended: exception 0x04 is emitted when write_cb returns false for a
\* write function (0x05, 0x06, 0x0F, 0x10) and in no other case; when
\* custom_config_cb returns false for function 0x64 the exception is 0x03.
C18_DeviceFailureOnWriteRejection ==
    ValidRequest =>
        /\ Rejected("write_cb") => (ReqFunc \in WriteFuncs
                                      /\ ExceptionSent(MB_EX_SLAVE_DEVICE_FAILURE))
        /\ Rejected("custom_config_cb") => (ReqFunc = MB_FUNC_CUSTOM_CONFIG
                                              /\ ExceptionSent(MB_EX_ILLEGAL_DATA_VALUE))
        /\ \A k \in 1..Len(obs.sent) :
              (IsException(obs.sent[k]) /\ obs.sent[k][3] = MB_EX_SLAVE_DEVICE_FAILURE)
                  => Rejected("write_cb")

\* write_cb rejected a 0x10 request: exception 0x04 for function 0x10
C18_Witness ==
    /\ ValidRequest /\ ReqFunc = MB_FUNC_WRITE_MULTI_REGS
    /\ Rejected("write_cb")
    /\ Len(obs.sent) = 1 /\ SubSeq(obs.sent[1], 1, 3) = <<1, 144, 4>>

\* the function codes Modbus_Process has a case for
SupportedFuncs ==
    {MB_FUNC_READ_COILS, MB_FUNC_READ_DISCRETE, MB_FUNC_READ_HOLDING, MB_FUNC_READ_INPUT,
     MB_FUNC_WRITE_SINGLE_COIL, MB_FUNC_WRITE_SINGLE_REG, MB_FUNC_WRITE_MULTI_COILS,
     MB_FUNC_WRITE_MULTI_REGS, MB_FUNC_CUSTOM_CONFIG}

\* the request of the last call names a read or write function whose region is
\* absent: null pointer or zero count
RegionOfRequestAbsent ==
    \/ ReqFunc \in 1..4 /\ ReadTableOfRequest = 1
    \/ ReqFunc \in WriteFuncs /\ ~WriteRegionPresent

\* C19: for every validated frame whose function code is none of 0x01..0x06,
\* 0x0F, 0x10, 0x64 the engine transmits exception 0x01 and changes nothing in
\* the register file; a supported read or write function whose region is
\* absent (null pointer or zero count) is answered with exception 0x01 too.
C19_UnsupportedFunction ==
    [][ProcessedStep(0..255) =>
          /\ ReqFunc' \notin SupportedFuncs =>
                (ExceptionSent(MB_EX_ILLEGAL_FUNCTION)' /\ RegisterFileUnchanged)
          /\ RegionOfRequestAbsent' => ExceptionSent(MB_EX_ILLEGAL_FUNCTION)']_vars

\* 0x02 with discrete_count = 0 and a pointer that is not null drew exception 0x01
C19_Witness ==
    /\ ValidRequest /\ ReqFunc = MB_FUNC_READ_DISCRETE
    /\ hmodbus.data_map.discrete_inputs # "NULL" /\ hmodbus.data_map.discrete_count = 0
    /\ ExceptionSent(MB_EX_ILLEGAL_FUNCTION)

\* the run a Modbus_Process call entered now takes: rx_len octets of the pending buffer
PendingRun == SubSeq(rx_mem[hmodbus.rx_process_buf], 1, hmodbus.rx_len)

\* a run shorter than 4 octets, sent to another address than the instance's
\* or 0xFF, or not ending with the CRC of its other octets
DroppedRun(run, slave_addr) ==
    \/ Len(run) < 4
    \/ run[1] \notin {slave_addr, 255}
    \/ ~EndsWithCrc(run)

\* C20: when Modbus_Process takes a run shorter than 4 octets, a frame for
\* another address (0x00 included, whatever it carries) or a frame with a
\* CRC mismatch, no octet is transmitted, the register file and the transmit
\* buffer are unchanged, no host callback is called and DE/RE is not driven;
\* of the instance only rx_ready and rx_len change: they are cleared.
C20_DropsHaveNoEffect ==
    [][(/\ proc.pc = "idle" /\ hmodbus.rx_ready = 1 /\ hmodbus'.rx_ready = 0
        /\ \/ DroppedRun(PendingRun, hmodbus.slave_addr)
           \/ hmodbus.rx_len >= 1 /\ PendingRun[1] = 0)
        => /\ obs'.sent = <<>>
           /\ obs'.cb_calls = <<>>
           /\ obs'.de_drives = <<>>
           /\ RegisterFileUnchanged
           /\ hmodbus' = [hmodbus EXCEPT !.rx_ready = 0, !.rx_len = 0]
           /\ UNCHANGED <<tx_buf, rx_mem, armed>>]_vars

\* a well-formed 0x06 request sent to address 0 was dropped by an instance
\* that had answered a write before
C20_Witness ==
    /\ obs.verdict = "addr" /\ obs.req[1] = 0 /\ obs.req[2] = MB_FUNC_WRITE_SINGLE_REG
    /\ EndsWithCrc(obs.req)
    /\ obs.sent = <<>>
    /\ hmodbus.rx_ready = 0 /\ hmodbus.rx_len = 0
    /\ g_holding_regs = <<4660, 0>>
    /\ SubSeq(tx_buf, 1, 6) = <<1, 6, 0, 0, 18, 52>>

\* C21: in every state of an instance for which Modbus_Init returned true,
\* slave_addr is in 1..247, whatever octets Modbus_SetSlaveAddr was called with
\* and whatever frames were processed, 0x64 requests for the slave address
\* included; no frame the instance transmits starts with 0x00 or 0xFF.
C21_SlaveAddrInRange ==
    /\ hmodbus.slave_addr >= 1 /\ hmodbus.slave_addr <= 247
    /\ \A k \in 1..Len(obs.sent) :
          obs.sent[k][1] >= 1 /\ obs.sent[k][1] <= 247

\* a 0x64 request sent to 0xFF moved the instance to address 247, the upper
\* limit, and the acknowledgement starts with 247
C21_Witness ==
    /\ CustomConfigRequest /\ obs.req[1] = 255
    /\ obs.slave_addr # 247 /\ hmodbus.slave_addr = 247
    /\ Len(obs.sent) = 1 /\ obs.sent[1][1] = 247

RECURSIVE SameCrcFrom(_, _, _, _, _)
\* the table loop and the shift loop, run side by side over buf[i..length-1]
\* from the registers t and s, hold equal registers after every octet
SameCrcFrom(t, s, buf, i, length) ==
    /\ t = s
    /\ i < length => SameCrcFrom(CrcTableLoop(t, buf, i, i + 1), CrcShiftLoop(s, buf, i, i + 1),
                                 buf, i + 1, length)

\* Modbus_CRC16 over the first n octets of a buffer gives the same value with
\* the table as with the shifts, for every n up to length
SameCrc(buf, length) ==
    /\ SameCrcFrom(65535, 65535, buf, 0, length)
    /\ Modbus_CRC16(TRUE, buf, length) = Modbus_CRC16(FALSE, buf, length)

\* C25: for every octet sequence Modbus_CRC16 returns the same 16-bit value
\* with use_crc_table = true as with use_crc_table = false, and for every i in
\* 0..255 CRC16_TABLE[i] is the result of the eight shift steps on i.  The
\* sequences are the contents of the receive buffer last filled and of the
\* transmit buffer, over every length the buffers allow.
C25_CrcImplementationsAgree ==
    /\ SameCrc(rx_mem[hmodbus.rx_process_buf], hmodbus.rx_buf_size)
    /\ SameCrc(tx_buf, hmodbus.tx_buf_size)
    /\ hist.pend = "none" => \A i \in 0..255 : CRC16_TABLE[i + 1] = CrcShift8(i)

\* a frame with function code 0xA5 was validated by the shift implementation
\* and the exception answering it got its CRC from the same implementation
C25_Witness ==
    /\ ~hmodbus.use_crc_table
    /\ ValidRequest /\ obs.req = WithCrc(<<1, 165, 239, 90>>)
    /\ Len(obs.sent) = 1 /\ EndsWithCrc(obs.sent[1])
    /\ Modbus_CRC16(TRUE, tx_buf, 3) = obs.sent[1][4] + 256 * obs.sent[1][5]

\* C26: Modbus_CRC16 over the six octets 01 03 00 00 00 0A returns 0xCDC5
\* with either implementation; the frame that carries C5 then CD after them
\* passes the CRC check and the one that carries CD then C5 does not.
C26_CrcVector ==
    /\ \A b \in Bufs : SubSeq(rx_mem[b], 1, 6) = CrcVector =>
          /\ Modbus_CRC16(TRUE, rx_mem[b], 6) = 52677
          /\ Modbus_CRC16(FALSE, rx_mem[b], 6) = 52677
    /\ obs.req = CrcVectorFrame => ValidRequest
    /\ obs.req = CrcVector \o <<205, 197>> => obs.verdict = "crc"

\* the frame 01 03 00 00 00 0A C5 CD was received and passed the CRC check
C26_Witness ==
    /\ ValidRequest /\ obs.req = <<1, 3, 0, 0, 0, 10, 197, 205>>
    /\ rx_mem[proc.rx_buf] # rx_mem[OtherBuf(proc.rx_buf)]

\* the checks of steps 1-3 on a frame received whole by an instance with the
\* given slave address and the CRC selector of this instance
PassesChecks(frame, slave_addr) ==
    Validate([slave_addr |-> slave_addr, use_crc_table |-> hmodbus.use_crc_table],
             frame, Len(frame)) = "valid"

\* C27: every frame the engine transmits, normal, echo or exception, is
\* [slave_addr as it stands when the frame is sent][func or func | 0x80]
\* [payload][CRC low][CRC high], the last two octets being the CRC-16/Modbus
\* of all octets before them; received by an instance with the same address
\* and CRC selector it passes the length, address and CRC checks.
C27_FramesSelfValidating ==
    \A k \in 1..Len(obs.sent) :
        /\ Len(obs.sent[k]) >= 5
        /\ obs.sent[k][1] = obs.addr_out
        /\ obs.sent[k][2] \in {ReqFunc, ExceptionFunc(ReqFunc)}
        /\ EndsWithCrc(obs.sent[k])
        /\ PassesChecks(obs.sent[k], obs.addr_out)

\* the acknowledgement of a 0x64 request that changed the slave address
\* passes the checks of an instance at the new address, and of none at the old
C27_Witness ==
    /\ CustomConfigRequest /\ obs.addr_out # obs.slave_addr
    /\ ~hmodbus.use_crc_table
    /\ Len(obs.sent) = 1 /\ Len(obs.sent[1]) = 8
    /\ PassesChecks(obs.sent[1], obs.addr_out)
    /\ ~PassesChecks(obs.sent[1], obs.slave_addr)

\* the call that ends in this step takes the request the call before it took,
\* the slave address has not been set in between, and write_cb, where
\* installed, returns what it returned before
SameRequestAgain ==
    /\ ValidRequest /\ obs'.req = obs.req
    /\ hmodbus.slave_addr = obs.addr_out
    /\ Len(obs'.cb_calls) = Len(obs.cb_calls)
    /\ \A k \in 1..Len(obs.cb_calls) : obs'.cb_calls[k].ret = obs.cb_calls[k].ret

\* C30: processing the same valid 0x05 or 0x06 request twice in succession,
\* write_cb being absent or returning the same answer both times, gives two
\* byte-identical responses and leaves the register file as it was after the
\* first processing.
C30_WriteSingleIdempotent ==
    [][(ProcessedStep(SingleWriteFuncs) /\ SameRequestAgain)
          => /\ Len(obs'.sent) = 1 /\ obs'.sent = obs.sent
             /\ RegisterFileUnchanged]_vars

\* the 0x06 request for register 0 was processed a second time: write_cb saw
\* the value of the request already in the register, and the echo was sent
C30_Witness ==
    /\ ValidRequest /\ obs.req = Req(1, MB_FUNC_WRITE_SINGLE_REG, 0, 4660)
    /\ hmodbus.slave_addr = 1
    /\ Len(obs.cb_calls) = 1 /\ obs.cb_calls[1].ret
    /\ obs.cb_calls[1].holding_regs[1] = 4660
    /\ g_holding_regs[1] = 4660
    /\ obs.sent = <<obs.req>>

\* the step is a Modbus_Init call
InitStep == init_call'.n = init_call.n + 1

\* the level of the DE/RE pin that selects reception
ReceiveLevel(rs485) == IF rs485.de_polarity THEN "GPIO_PIN_RESET" ELSE "GPIO_PIN_SET"

\* what the arguments of a Modbus_Init call must satisfy for it to return true
InitArgsValid(call) ==
    /\ call.hmodbus # "NULL" /\ call.config # "NULL"
    /\ call.args.huart # "NULL"
    /\ call.args.rx_buf_a # "NULL" /\ call.args.rx_buf_b # "NULL" /\ call.args.tx_buf # "NULL"
    /\ call.args.rx_buf_size >= 8 /\ call.args.tx_buf_size >= 8
    /\ call.args.slave_addr >= 1 /\ call.args.slave_addr <= 247

\* C22: Modbus_Init returns true iff the handle and the configuration are
\* not null, the UART handle is not null, the three buffers are not null,
\* both buffer sizes are at least 8 and slave_addr is in 1..247.  When it
\* returns false the handle is as it was, the driver is not armed anew and
\* DE/RE is not driven.  When it returns true rx_ready = 0, rx_len = 0, the
\* active buffer is A, the pending buffer is B, the driver is armed on A, and
\* with RS-485 enabled the DE/RE pin, where one is configured, is at the
\* receive level.
C22_InitValidation ==
    [][InitStep =>
          /\ init_call'.ret <=> InitArgsValid(init_call')
          /\ ~init_call'.ret => UNCHANGED <<hmodbus, armed, uart>>
          /\ init_call'.ret =>
                /\ hmodbus'.rx_ready = 0 /\ hmodbus'.rx_len = 0
                /\ hmodbus'.rx_active_buf = "A" /\ hmodbus'.rx_process_buf = "B"
                /\ hmodbus'.slave_addr = init_call'.args.slave_addr
                /\ armed' = "A"
                /\ uart'.de =
                      IF init_call'.args.rs485.enabled /\ init_call'.args.rs485.de_port # "NULL"
                      THEN ReceiveLevel(init_call'.args.rs485) ELSE uart.de]_vars

\* an instance that has a run pending at address 2 was left as it is by a
\* second Modbus_Init call with a 7-octet transmit buffer
C22_Witness ==
    /\ init_call.n = 2 /\ ~init_call.ret /\ init_call.args.tx_buf_size = 7
    /\ init_call.hmodbus # "NULL" /\ init_call.config # "NULL"
    /\ hmodbus.slave_addr = 2 /\ hmodbus.rx_ready = 1 /\ armed = "B"
    /\ uart.de = "GPIO_PIN_RESET"

(***************************************************************************)
(* The RS-485 direction pin and the transmitter.                           *)
(***************************************************************************)
\* the level of the DE/RE pin that selects transmission
TransmitLevel(rs485) == IF rs485.de_polarity THEN "GPIO_PIN_SET" ELSE "GPIO_PIN_RESET"

\* the instance drives a DE/RE pin
PinDriven == hmodbus.rs485.enabled /\ hmodbus.rs485.de_port # "NULL"

\* the pin enables the line driver
AtTransmit == uart.de = TransmitLevel(hmodbus.rs485)

\* this step hands the octets of a response to the UART
HandsOver == Len(obs'.sent) > Len(obs.sent)

\* this step writes the receive level to the pin
ReturnsToReceive ==
    /\ Len(obs'.de_drives) > Len(obs.de_drives)
    /\ uart'.de = ReceiveLevel(hmodbus.rs485)

\* the statement that may write the receive level: the one after the loop on
\* TC, in Modbus_SendResponse or in Modbus_TxCallback
AfterWaitTC ==
    IF hmodbus.use_dma_tx THEN proc.tx_cb = "set_rx"
    ELSE proc.tx_cb = "idle" /\ proc.pc = "set_rx"

\* C23: with RS-485 enabled the DE/RE pin is at the transmit polarity when
\* the octets of a response are handed to the UART, it is written back to
\* the receive polarity only with TC set, after the loop on TC of
\* Modbus_SendResponse (blocking path) or of Modbus_TxCallback (DMA path),
\* and it is at the transmit polarity for as long as octets are still to be
\* shifted out.
C23_TurnaroundOrdering ==
    /\ [](PinDriven /\ uart.tx_left > 0 => AtTransmit)
    /\ [][/\ PinDriven /\ HandsOver => AtTransmit
          /\ ReturnsToReceive => uart.tc /\ uart.tx_left = 0 /\ AfterWaitTC]_vars

\* a response is being shifted out on the DMA path while the pin is at the
\* receive polarity
C23_Witness ==
    /\ PinDriven
    /\ hmodbus.use_dma_tx
    /\ uart.tx_left > 0
    /\ uart.busy
    /\ Len(obs.sent) = 1
    /\ uart.de = ReceiveLevel(hmodbus.rs485)

\* C24: every Modbus_Process call and every Modbus_TxCallback call returns;
\* the loop on the transmit-complete flag ends when the computed transmit
\* timeout has passed, so the call returns even if the transmitter never
\* sets TC.
C24_CallsReturn ==
    /\ (proc.pc # "idle") ~> (proc.pc = "idle")
    /\ (proc.tx_cb # "idle") ~> (proc.tx_cb = "idle")

\* HAL_UART_Transmit has timed out and the call is in the loop on TC with TC reset
C24_Witness ==
    /\ ~hmodbus.use_dma_tx
    /\ hmodbus.rs485.enabled
    /\ proc.pc = "wait_tc"
    /\ ~uart.tc
    /\ uart.tx_left = 1

(***************************************************************************)
(* Two instances on one register file.                                     *)
(***************************************************************************)
\* a Modbus_Process call has taken up a pending run: h before, g after the call
TakesUp(h, g) == h.rx_ready = 1 /\ g.rx_ready = 0

\* the response o.sent to a read of coils or holding registers returns, for
\* every element written so far, the value sh holds for it
ReadsBack(o, sh) ==
    (o.verdict = "valid" /\ Len(o.sent) = 1) =>
        LET func == o.snap_bytes[2]
            start == o.snap_bytes[3] * 256 + o.snap_bytes[4]
            quantity == o.snap_bytes[5] * 256 + o.snap_bytes[6]
        IN /\ (func = MB_FUNC_READ_HOLDING /\ o.sent[1][2] = func) =>
                 \A i \in 0..(quantity - 1) :
                     sh.regs[start + i] # -1 =>
                         o.sent[1][4 + 2 * i] * 256 + o.sent[1][5 + 2 * i] = sh.regs[start + i]
           /\ (func = MB_FUNC_READ_COILS /\ o.sent[1][2] = func) =>
                 \A i \in 0..(quantity - 1) :
                     sh.coils[start + i] # -1 =>
                         (o.sent[1][4 + (i \div 8)] \div Pow2(i % 8)) % 2 = sh.coils[start + i]

\* C28: with two instances bound to the same register storage and their
\* Modbus_Process calls interleaved in any order, each running to
\* completion, a read through either instance returns for every coil and
\* holding register the value of the last completed write through either
\* instance; both handles designate the same storage and hold no copy.
C28_SharedVisibility ==
    /\ [](hmodbus.data_map = mb2.h.data_map)
    /\ [][/\ TakesUp(hmodbus, hmodbus') => ReadsBack(obs', shadow')
          /\ TakesUp(mb2.h, mb2'.h) => ReadsBack(mb2'.obs, shadow')]_vars

\* the first instance has returned holding register 0 as the second instance
\* wrote it, and the second instance holding register 1 as the first wrote it
C28_Witness ==
    /\ obs.verdict = "valid" /\ obs.snap_bytes[2] = MB_FUNC_READ_HOLDING
    /\ Len(obs.sent) = 1 /\ obs.sent[1][2] = MB_FUNC_READ_HOLDING
    /\ obs.sent[1][4] * 256 + obs.sent[1][5] = 4660
    /\ mb2.obs.verdict = "valid" /\ mb2.obs.snap_bytes[2] = MB_FUNC_READ_HOLDING
    /\ Len(mb2.obs.sent) = 1 /\ mb2.obs.sent[1] = WithCrc(<<2, 3, 2, 18, 52>>)
    /\ shadow.regs[0] = 4660 /\ shadow.regs[1] = 4660

\* the value of coil c in the packed region
CoilValue(coils, c) == BitOf(coils[c \div 8 + 1], c % 8)

\* C29: when the two instances, one preempting the other at any point, each
\* write coils (0x05 or 0x0F) that are packed in the same octet but are
\* different coils, both writes have taken effect once both calls have
\* returned: every coil holds the value last written to it.
C29_NeighbourCoilsKept ==
    (proc.pc = "idle" /\ mb2.proc.pc = "idle") =>
        \A c \in 0..(CoilCount - 1) :
            shadow.coils[c] # -1 => CoilValue(g_coils, c) = shadow.coils[c]

\* both calls have returned, each with the echo of its 0x05 request, and coil
\* 1 that the second instance set is clear
C29_Witness ==
    /\ proc.pc = "idle" /\ mb2.proc.pc = "idle"
    /\ obs.sent = <<Req(1, MB_FUNC_WRITE_SINGLE_COIL, 0, 65280)>>
    /\ mb2.obs.sent = <<Req(2, MB_FUNC_WRITE_SINGLE_COIL, 1, 65280)>>
    /\ shadow.coils[0] = 1 /\ shadow.coils[1] = 1
    /\ CoilValue(g_coils, 0) = 1
    /\ CoilValue(g_coils, 1) = 0

(***************************************************************************)
(* The end-to-end scenarios.                                               *)
(***************************************************************************)
\* the last call has processed this frame, which passed the checks
Processed(frame) == obs.verdict = "valid" /\ obs.req = frame

\* the last call has taken this frame from the buffer and returned
HandedOff(frame) == obs.verdict \in {"valid", "crc", "addr", "short"} /\ obs.req = frame

\* C31: scenario 2 with the CRC of the requests.  On an instance with address
\* 0x01 and the holding registers 0..7, processing 01 06 00 05 12 34 94 BC
\* transmits the same eight octets unless write_cb rejects the write, and
\* processing 01 03 00 05 00 01 94 0B after that write transmits
\* 01 03 02 12 34 B5 33.
C31_Scenario2 ==
    /\ (HandedOff(Scenario2Write) /\ ~Rejected("write_cb")) =>
           /\ obs.sent = <<Scenario2Write>>
           /\ shadow.regs[5] = 4660
    /\ (HandedOff(Scenario2Read) /\ shadow.regs[5] = 4660) =>
           obs.sent = <<Scenario2Response>>

\* the read of scenario 2 has been answered after the write of scenario 2
C31_Witness ==
    /\ Processed(Scenario2Read)
    /\ shadow.regs[5] = 4660
    /\ g_holding_regs[6] = 4660
    /\ obs.sent = <<Scenario2Response>>

\* C31 as printed: processing 01 06 00 05 12 34 9A D4 transmits the echo and
\* processing 01 03 00 05 00 01 95 C9 transmits 01 03 02 12 34 B5 33.
C31_AsPrinted ==
    /\ HandedOff(Scenario2WritePrinted) => obs.sent = <<Scenario2WritePrinted>>
    /\ HandedOff(Scenario2ReadPrinted) => obs.sent = <<Scenario2Response>>

\* C32: scenario 4 with the CRC of the request.  On an instance with address
\* 0x01 and exactly the holding registers 0..7, processing
\* 01 03 00 07 00 02 75 CA transmits the exception 01 83 02 C0 F1.
C32_Scenario4 == HandedOff(Scenario4Read) => obs.sent = <<Scenario4Response>>

\* the read past the last register has been answered
C32_Witness ==
    /\ Processed(Scenario4Read)
    /\ hmodbus.data_map.holding_reg_count = 8
    /\ obs.sent = <<Scenario4Response>>

\* C32 as printed: processing 01 03 00 07 00 02 75 CB transmits 01 83 02 C0 F1.
C32_AsPrinted == HandedOff(Scenario4ReadPrinted) => obs.sent = <<Scenario4Response>>

(***************************************************************************)
(* The snapshot of the pending frame.                                      *)
(***************************************************************************)
\* C33: the buffer pointer and the length Modbus_Process parses come from one
\* Modbus_RxCallback invocation: when the call reads rx_len, the pointer it
\* holds is the one of the newest hand-off, no hand-off has taken place since
\* the pointer was read, and the length read is the one that hand-off recorded.
C33_SnapshotConsistency ==
    [][(proc.pc = "snap_len" /\ proc'.pc = "clear_ready") =>
           /\ hist.pend = "pointer"
           /\ proc.rx_buf = hist.pend_buf
           /\ proc'.rx_len = hist.pend_len]_vars

\* a call is about to check the 8-octet request of one run with the byte
\* count of the 13-octet run handed off between its two reads
C33_Witness ==
    /\ proc.pc = "validate"
    /\ hist.pend = "pending"
    /\ proc.rx_buf # hist.pend_buf
    /\ proc.rx_len = hist.pend_len
    /\ proc.rx_len = Len(SetRegs)
    /\ SubSeq(rx_mem[proc.rx_buf], 1, 8) = Req(1, MB_FUNC_READ_COILS, 0, 8)
    /\ SubSeq(rx_mem[hist.pend_buf], 1, proc.rx_len) = SetRegs

\* C34: from the snapshot of the pending pointer until Modbus_Process
\* returns, the driver is not armed on the buffer being parsed and the buffer
\* keeps the octets it had at the snapshot, however many runs complete
\* during the call.
C34_ParsedBufferUntouched ==
    InCall =>
        /\ armed # proc.rx_buf
        /\ rx_mem[proc.rx_buf] = obs.snap_bytes

\* a call that validated the 0x10 request has answered the read request that
\* the second run completing during the call stored over it
C34_Witness ==
    /\ proc.pc = "idle"
    /\ obs.verdict = "valid"
    /\ obs.req = SetRegs
    /\ obs.irqs = 2
    /\ Len(obs.sent) = 1
    /\ obs.sent[1][2] = MB_FUNC_READ_COILS
    /\ g_holding_regs = Zeros(HoldingRegCount)

(***************************************************************************)
(* The transmit buffer during a DMA transfer.                              *)
(***************************************************************************)
\* C35: with use_dma_tx, from the start of a DMA transfer until its
\* transmit-complete callback no octet of the transmit buffer is modified: a
\* request processed in between leaves the response in flight as it was
\* handed to the DMA.
C35_TxBufStableDuringDma ==
    /\ [](uart.busy => SubSeq(tx_buf, 1, Len(uart.frame)) = uart.frame)
    /\ [][uart.busy => tx_buf' = tx_buf]_vars

\* no octet of the response has left the transmitter yet, and the transmit
\* buffer the DMA fetches from already holds the next response
C35_Witness ==
    /\ hmodbus.use_dma_tx
    /\ uart.busy
    /\ uart.tx_left = Len(uart.frame)
    /\ proc.pc = "set_tx"
    /\ SubSeq(tx_buf, 1, Len(uart.frame)) # uart.frame

(***************************************************************************)
(* The register file across a Modbus_Process call.                         *)
(***************************************************************************)
\* the step is a Modbus_Process call that took a run, validated or not
CallStep == hmodbus.rx_ready = 1 /\ hmodbus'.rx_ready = 0

\* the call validated a request with one of these functions and answered it
\* with a normal response; element a is one the request names
Wrote(funcs, a) ==
    /\ ValidRequest /\ ReqFunc \in funcs
    /\ Len(obs.sent) = 1 /\ ~IsException(obs.sent[1])
    /\ ReqStart <= a /\ a < ReqStart + WriteQuantity

\* C36: a Modbus_Process call changes a coil only if it answered a 0x05 or
\* 0x0F request naming that coil with a normal response, a holding register
\* only if it answered a 0x06 or 0x10 request naming that register with a
\* normal response, and never a discrete input or an input register; so
\* reads, 0x64 requests and requests answered with an exception change
\* nothing, and coils packed in the octet of a written coil keep their value.
C36_RegisterFileFrame ==
    [][CallStep =>
          /\ UNCHANGED <<g_discrete_inputs, g_input_regs>>
          /\ \A c \in 0..(8 * Len(g_coils) - 1) :
                CoilValue(g_coils', c) # CoilValue(g_coils, c)
                    => Wrote(CoilWriteFuncs, c)'
          /\ \A a \in 0..(Len(g_holding_regs) - 1) :
                g_holding_regs'[a + 1] # g_holding_regs[a + 1]
                    => Wrote(WriteFuncs \ CoilWriteFuncs, a)']_vars

\* coil 9 has been cleared by a 0x05 request; coil 8, packed in the same
\* octet, and the coils of the other octet are still set
C36_Witness ==
    /\ ValidRequest /\ obs.req = Req(1, MB_FUNC_WRITE_SINGLE_COIL, 9, 0)
    /\ Len(obs.sent) = 1 /\ ~IsException(obs.sent[1])
    /\ g_coils = <<255, 1>>

(***************************************************************************)
(* The octets of a request that the handlers interpret.                    *)
(***************************************************************************)
\* the data octets the quantity of a 0x0F / 0x10 request takes
DataOctets == IF ReqFunc = MB_FUNC_WRITE_MULTI_COILS THEN CeilDiv8(ReqQuantity) ELSE 2 * ReqQuantity

\* the frame the last call validated ends before the fields of its function:
\* fewer than 8 octets for the functions with two 16-bit fields, and for 0x0F /
\* 0x10 a length other than 9 + byte_count or a byte count below the data
\* octets the quantity takes
ShortOfLayout ==
    /\ ValidRequest
    /\ \/ /\ ReqFunc \in {MB_FUNC_READ_COILS, MB_FUNC_READ_DISCRETE, MB_FUNC_READ_HOLDING,
                         MB_FUNC_READ_INPUT, MB_FUNC_WRITE_SINGLE_COIL,
                         MB_FUNC_WRITE_SINGLE_REG}
          /\ Len(obs.req) < 8
       \/ /\ ReqFunc \in {MB_FUNC_WRITE_MULTI_COILS, MB_FUNC_WRITE_MULTI_REGS}
          /\ \/ Len(obs.req) < 9
             \/ Len(obs.req) # 9 + obs.snap_bytes[7]
             \/ obs.snap_bytes[7] < DataOctets

\* C37: a validated frame that ends before the fields of its function is not
\* parsed from its CRC octets or from the octets behind it: the call stores
\* nothing to the register file and answers with no normal response.
C37_FieldsInsideFrame ==
    [][(CallStep /\ ShortOfLayout') =>
           /\ RegisterFileUnchanged
           /\ \A k \in 1..Len(obs'.sent) : IsException(obs.sent[k])']_vars

\* the 6-octet frame 01 06 00 00 with its CRC has been answered by an echo,
\* and holding register 0 holds the two CRC octets
C37_Witness ==
    /\ ValidRequest
    /\ Len(obs.req) = 6
    /\ ReqFunc = MB_FUNC_WRITE_SINGLE_REG
    /\ SubSeq(obs.req, 1, 4) = <<1, MB_FUNC_WRITE_SINGLE_REG, 0, 0>>
    /\ Len(obs.sent) = 1 /\ Len(obs.sent[1]) = 8
    /\ g_holding_regs[1] = Word(obs.req[5], obs.req[6])
    /\ g_holding_regs[1] # 0

(***************************************************************************)
(* The bounds of the transmit buffer.                                      *)
(***************************************************************************)
\* C38: for every configuration Modbus_Init accepts and every validated
\* request, Modbus_Process and Modbus_SendResponse store to the transmit
\* buffer at indices below tx_buf_size only.
C38_TxBufBounds == ~obs.tx_oob

\* a read of three holding registers on an instance with an 8-octet transmit
\* buffer has stored past the buffer and transmitted nothing
C38_Witness ==
    /\ hmodbus.tx_buf_size = 8
    /\ ValidRequest /\ obs.req = Req(1, MB_FUNC_READ_HOLDING, 5, 3)
    /\ obs.tx_oob
    /\ obs.sent = <<>>

(***************************************************************************)
(* The baud rate.                                                          *)
(***************************************************************************)
\* C39: in every state of an instance for which Modbus_Init returned true,
\* after any Modbus_SetBaudRate calls, baud_rate > 0, so that the timeout
\* computation of the blocking path never divides by zero.
C39_BaudRatePositive == hmodbus.baud_rate > 0 /\ proc.pc # "fault"

\* Modbus_Init accepted a configuration with baud_rate = 0, Modbus_SetBaudRate(0)
\* left it so, and the call answering a valid request has divided by it
C39_Witness ==
    /\ hmodbus.baud_rate = 0
    /\ ~hmodbus.use_dma_tx
    /\ ValidRequest
    /\ proc.pc = "fault"
    /\ obs.sent = <<>>

(***************************************************************************)
(* The single-instance variant: the address of the responses.              *)
(***************************************************************************)
\* C40: in the single-instance variant (src/modbus_slave.c), every response
\* transmitted to a validated request addressed to 0xFF, whatever its function
\* code, carries in its first octet the slave address configured when it was
\* sent, and never 0xFF (the slave being configured with an address other
\* than 0xFF).
C40_LegacyRealAddress ==
    legacy # NoLegacy =>
        \A k \in 1..Len(legacy.sent) :
            (legacy.sent[k].request[1] = 255 /\ legacy.sent[k].slave_addr # 255) =>
                /\ legacy.sent[k].frame[1] = legacy.sent[k].slave_addr
                /\ legacy.sent[k].frame[1] # 255

\* the slave of default address 1 has set coil 3 on a request addressed to
\* 0xFF and has transmitted the request back, first octet 0xFF
C40_Witness ==
    /\ legacy # NoLegacy
    /\ legacy.config.slave_addr = DEFAULT_SLAVE_ADDR
    /\ legacy.rx_len = 0
    /\ BitOf(legacy.mb_coils[1], 3) = 1
    /\ legacy.sent = << [request |-> Req(255, MB_FUNC_WRITE_SINGLE_COIL, 3, 65280),
                         slave_addr |-> DEFAULT_SLAVE_ADDR,
                         frame |-> Req(255, MB_FUNC_WRITE_SINGLE_COIL, 3, 65280)] >>
=============================================================================
